---------------------------- MODULE Spec2Model ----------------------------
(***************************************************************************)
(* A model of the boml TOML parser.                                        *)
(*                                                                         *)
(*  - Spec      the top-level driver Toml::parse (src/src/lib.rs) with the *)
(*              table operations of src/src/table.rs and the key and       *)
(*              inline-table parsers of src/src/parser.rs                  *)
(*  - SpecNum   the number parser of src/src/parser/num.rs                 *)
(*  - SpecStr   the string parsers of src/src/parser/string.rs             *)
(*  - SpecKey   the key parser of src/src/parser/key.rs with the string    *)
(*              views of src/src/text.rs as the keys of a table's map      *)
(*  - SpecAdapt the conversions the FromToml derive macro generates        *)
(*              (src/boml-derive/src/lib.rs, src/src/convert_traits.rs)    *)
(*  - SpecTime  the number parser on times with fractional seconds         *)
(*              (src/src/parser/time.rs)                                   *)
(*  - SpecVal   the value parser of src/src/parser/value.rs, step by step, *)
(*              with the dotted keys of src/src/parser/key.rs              *)
(*  - SpecValFair  SpecVal with weak fairness of the steps of the parser   *)
(*  - SpecDerive   the strategy the derive macro chooses for an enum from  *)
(*              its boml attributes (src/boml-derive/src/lib.rs)           *)
(*                                                                         *)
(* A text is a sequence of bytes; a byte is written as a one-character     *)
(* string, the control bytes and the two quoting bytes by name ("TAB",     *)
(* "LF", "CR", "BS", "FF", "BSL" for the backslash, "DQ" and "SQ" for the  *)
(* double and the single quote).  Indices into a text are 0-based as in the source.              *)
(***************************************************************************)
EXTENDS Integers, Sequences, FiniteSets, TLC

VARIABLES
    \* Toml::parse
    root_table,     \* the root table under construction
    current_table,  \* Option<(Key, Table, bool)>: the table of the last header
    result,         \* "parsing", "Ok" or the kind of the error returned
    log,            \* the statements of the input read so far, each with
                    \* the key path and the literal it was written for
    \* parser::num
    ntext,          \* the text handed to the number parser
    nres,           \* what it returned
    debug_build,    \* the crate was built with the dev profile: debug
                    \* assertions and overflow checks are on
    \* parser::string
    stext,          \* the text handed to the string parser
    sres,           \* what it returned
    \* parser::key and the map of a table
    ktable,         \* HashMap<CowSpan, TomlValue>: the keys stored in it, each
                    \* with the key texts that were looked up and found it
    \* the derived FromToml adaptors
    atable,         \* the table that is converted
    ashape,         \* the type it is converted to
    ares,           \* what from_toml returned
    \* parser::value
    vtext,          \* the text handed to parse_value
    vidx,           \* Text::idx, the cursor
    vstack,         \* the calls of parse_value that have not returned, each
                    \* in the loop of an array or of an inline table
    vres,           \* what the outermost call returned
    \* the derive macro on an enum
    attr_fields,    \* the fields of the boml attributes of the enum
    strategy        \* what derive_enum made of them

vars == <<root_table, current_table, result, log, ntext, nres, debug_build,
         stext, sres, ktable, atable, ashape, ares, vtext, vidx, vstack, vres,
         attr_fields, strategy>>

drivervars == <<root_table, current_table, result, log>>
numvars == <<ntext, nres, debug_build>>
strvars == <<stext, sres>>
keyvars == <<ktable>>
adaptvars == <<atable, ashape, ares>>
valvars == <<vtext, vidx, vstack, vres>>
derivevars == <<attr_fields, strategy>>

-----------------------------------------------------------------------------
(* Bounds of the model.                                                    *)

\* statements (headers and key/value lines) of one input document
MaxStmts == 4
\* spaces or tabs around the dot of a dotted key
MaxPad == 1
\* digits of one number
MaxDigits == 3
\* width of the integers in bits, in place of the 64 of i64
IntBits == 5
\* bytes between the quotes of one string
MaxStrLen == 4
\* bytes of one key of the key parser, without its quotes
MaxKeyLen == 2
\* keys stored in the map of one table
MaxKeys == 2
\* digits of the fractional part of one time
MaxFrac == 10
\* elements of one array and assignments of one inline table
MaxElems == 2
\* fields in the boml attributes of one enum
MaxAttrs == 3

-----------------------------------------------------------------------------
(* Text: the cursor primitives.                                            *)

None == "None"

\* Text::current_byte at an arbitrary index: bytes.get(idx)
byte(text, idx) == IF idx >= 0 /\ idx < Len(text) THEN text[idx + 1] ELSE None

\* a faulty skip_whitespace_allow_comments, to compare with: one byte of
\* whitespace is skipped, not the run
skip_one_whitespace(text, idx) ==
    IF idx < Len(text) /\ text[idx + 1] \in {"TAB", " ", "LF", "CR"}
    THEN idx + 1 ELSE idx

RECURSIVE skip_whitespace_allow_comments(_, _)
skip_whitespace_allow_comments(text, idx) ==
    IF byte(text, idx) \in {"TAB", " ", "LF", "CR"}
    THEN skip_whitespace_allow_comments(text, idx + 1)
    ELSE idx

RECURSIVE skip_current_line(_, _)
skip_current_line(text, idx) ==
    IF byte(text, idx) = None \/ byte(text, idx) = "LF"
    THEN idx
    ELSE skip_current_line(text, idx + 1)

RECURSIVE skip_whitespace(_, _)
skip_whitespace(text, idx) ==
    LET i == skip_whitespace_allow_comments(text, idx)
    IN  IF byte(text, i) = "#"
        THEN skip_whitespace(text, skip_current_line(text, i))
        ELSE i

\* the bytes of text[from .. to), 0-based, as a decoded string
excerpt(text, from, to) == SubSeq(text, from + 1, to)

\* Text::local_excerpt(..n) as a string: the n bytes from the cursor, or
\* those up to the last byte of the text when fewer are left
local_excerpt(text, idx, n) ==
    SubSeq(text, idx + 1, IF idx + n <= Len(text) THEN idx + n ELSE Len(text))

-----------------------------------------------------------------------------
(* Values and tables.                                                      *)

\* a table's map: a function from decoded key strings to values
EmptyMap == [k \in {} |-> 0]

Integer(n) == [type |-> "Integer", v |-> n, map |-> EmptyMap, items |-> <<>>]
Table(m) == [type |-> "Table", v |-> 0, map |-> m, items |-> <<>>]
Array(xs) == [type |-> "Array", v |-> 0, map |-> EmptyMap, items |-> xs]

\* HashMap::insert / Entry::or_insert: the map with key k bound to value x
Put(m, k, x) == [j \in (DOMAIN m) \cup {k} |-> IF j = k THEN x ELSE m[j]]

\* Vec with its last element replaced (a write through last_mut())
SetLast(xs, x) == [xs EXCEPT ![Len(xs)] = x]


RECURSIVE nested(_, _)
\* the table that holds value under the key and nothing else
nested(key, value) ==
    IF Len(key) = 1 THEN Put(EmptyMap, Head(key), value)
    ELSE Put(EmptyMap, Head(key), Table(nested(Tail(key), value)))

\* a faulty Table::insert, to compare with: a dotted key starts its first
\* segment afresh (entry().insert() in place of entry().or_insert())
insert_afresh(map, key, value) ==
    IF Len(key) > 1
    THEN [map |-> Put(map, Head(key), Table(nested(Tail(key), value))),
          old |-> FALSE]
    ELSE [map |-> Put(map, Head(key), value), old |-> Head(key) \in DOMAIN map]

RECURSIVE insert(_, _, _)
\* Table::insert: [map |-> the table afterwards, old |-> the returned bool].
\* A key is the list of its dot-separated segments: Head is key.text, Tail
\* is key.child.
insert(map, key, value) ==
    IF Len(key) > 1
    THEN LET k == Head(key)
             m1 == IF k \in DOMAIN map THEN map ELSE Put(map, k, Table(EmptyMap))
             possible_table == m1[k]
         IN  IF possible_table.type = "Array"
             THEN IF Len(possible_table.items) > 0
                     /\ possible_table.items[Len(possible_table.items)].type = "Table"
                  THEN LET r == insert(possible_table.items[Len(possible_table.items)].map,
                                       Tail(key), value)
                       IN  [map |-> Put(m1, k, Array(SetLast(possible_table.items,
                                                              Table(r.map)))),
                            old |-> r.old]
                  ELSE [map |-> m1, old |-> TRUE]
             ELSE IF possible_table.type = "Table"
             THEN LET r == insert(possible_table.map, Tail(key), value)
                  IN  [map |-> Put(m1, k, Table(r.map)), old |-> r.old]
             ELSE [map |-> m1, old |-> TRUE]
    ELSE [map |-> Put(map, Head(key), value), old |-> Head(key) \in DOMAIN map]

RECURSIVE get_or_insert_mut(_, _, _)
\* Table::get_or_insert_mut: [map |-> the table afterwards, some |-> whether
\* a reference is returned, val |-> the value it refers to].
get_or_insert_mut(map, key, value) ==
    IF Len(key) > 1
    THEN LET k == Head(key)
             m1 == IF k \in DOMAIN map THEN map ELSE Put(map, k, Table(EmptyMap))
             possible_table == m1[k]
         IN  IF possible_table.type = "Array"
             THEN IF Len(possible_table.items) > 0
                     /\ possible_table.items[Len(possible_table.items)].type = "Table"
                  THEN LET r == get_or_insert_mut(
                                  possible_table.items[Len(possible_table.items)].map,
                                  Tail(key), value)
                       IN  [map |-> Put(m1, k, Array(SetLast(possible_table.items,
                                                              Table(r.map)))),
                            some |-> r.some, val |-> r.val]
                  ELSE [map |-> m1, some |-> FALSE, val |-> value]
             ELSE IF possible_table.type = "Table"
             THEN LET r == get_or_insert_mut(possible_table.map, Tail(key), value)
                  IN  [map |-> Put(m1, k, Table(r.map)), some |-> r.some, val |-> r.val]
             ELSE [map |-> m1, some |-> FALSE, val |-> value]
    ELSE LET m1 == IF Head(key) \in DOMAIN map THEN map ELSE Put(map, Head(key), value)
         IN  [map |-> m1, some |-> TRUE, val |-> m1[Head(key)]]

RECURSIVE write_mut(_, _, _)
\* A write through the reference get_or_insert_mut returned for key: the slot
\* it reached (through tables and the last elements of arrays) now holds x.
write_mut(map, key, x) ==
    IF Len(key) > 1
    THEN LET k == Head(key)
             possible_table == map[k]
         IN  IF possible_table.type = "Array"
             THEN Put(map, k, Array(SetLast(possible_table.items,
                     Table(write_mut(possible_table.items[Len(possible_table.items)].map,
                                     Tail(key), x)))))
             ELSE Put(map, k, Table(write_mut(possible_table.map, Tail(key), x)))
    ELSE Put(map, Head(key), x)

\* a faulty insert_subtable, to compare with: the bool of Table::insert is
\* dropped
insert_subtable_unchecked(root, key, table, array) ==
    IF array
    THEN LET g == get_or_insert_mut(root, key, Array(<<>>))
         IN  IF g.some /\ g.val.type = "Array"
             THEN [ok |-> TRUE,
                   root |-> write_mut(g.map, key,
                                      Array(Append(g.val.items, Table(table))))]
             ELSE [ok |-> FALSE, root |-> g.map]
    ELSE [ok |-> TRUE, root |-> insert(root, key, Table(table)).map]

\* insert_subtable: [ok |-> FALSE] is Err(ReusedKey)
insert_subtable(root, key, table, array) ==
    IF array
    THEN LET g == get_or_insert_mut(root, key, Array(<<>>))
         IN  IF g.some /\ g.val.type = "Array"
             THEN [ok |-> TRUE,
                   root |-> write_mut(g.map, key,
                                      Array(Append(g.val.items, Table(table))))]
             ELSE [ok |-> FALSE, root |-> g.map]
    ELSE LET r == insert(root, key, Table(table))
         IN  [ok |-> ~r.old, root |-> r.map]

-----------------------------------------------------------------------------
(* Keys and values: src/src/parser.rs.                                     *)

\* u8::is_ascii_alphanumeric, over the bytes the inputs use
AsciiAlphanumeric == {"a", "b", "c", "t", "x", "y", "0", "1", "2"}

RECURSIVE bare_key_end(_, _)
\* the scan of a bare key: the index of the first byte that is not part of it
bare_key_end(text, current) ==
    IF byte(text, current) # None
       /\ (byte(text, current) \in AsciiAlphanumeric
           \/ byte(text, current) = "-" \/ byte(text, current) = "_")
    THEN bare_key_end(text, current + 1)
    ELSE current

RECURSIVE parse_key(_, _)
\* parse_key, for a bare key: [ok, key, idx, err]; idx is left on the last
\* byte of the key.  current_byte().unwrap() on an exhausted text panics.
parse_key(text, idx) ==
    IF byte(text, idx) = None
    THEN [ok |-> FALSE, key |-> <<>>, idx |-> idx, err |-> "panic"]
    ELSE
    LET start == idx
        current == bare_key_end(text, idx)
    IN  IF byte(text, current) = None
        THEN [ok |-> FALSE, key |-> <<>>, idx |-> idx, err |-> "NoValueInAssignment"]
        ELSE LET span == excerpt(text, start, current)
                 dot == skip_whitespace(text, current)
             IN  IF byte(text, dot) = "."
                 THEN LET child == parse_key(text, skip_whitespace(text, dot + 1))
                      IN  IF child.ok
                          THEN [ok |-> TRUE, key |-> <<span>> \o child.key,
                                idx |-> child.idx, err |-> "none"]
                          ELSE child
                 ELSE [ok |-> TRUE, key |-> <<span>>, idx |-> current - 1,
                       err |-> "none"]

\* parse_assignment up to the `=`: the key, then `=` after optional blanks
parse_assignment(text) ==
    LET key == parse_key(text, 0)
    IN  IF ~key.ok THEN key
        ELSE IF byte(text, skip_whitespace(text, key.idx + 1)) # "="
        THEN [ok |-> FALSE, key |-> key.key, idx |-> key.idx,
              err |-> "NoEqualsInAssignment"]
        ELSE key

\* the header of Toml::parse between the opening and the closing bracket
parse_header(text) ==
    LET key == parse_key(text, skip_whitespace(text, 0))
    IN  IF ~key.ok THEN key
        ELSE IF byte(text, skip_whitespace(text, key.idx + 1)) # "]"
        THEN [ok |-> FALSE, key |-> key.key, idx |-> key.idx,
              err |-> "UnclosedBracket"]
        ELSE key

RECURSIVE inline_table(_, _)
\* the inline-table loop of parse_value: each assignment is inserted into the
\* fresh table, an insert that reports an overwrite is Err(ReusedKey), and the
\* loop ends at the `}` after the last assignment
inline_table(table, pairs) ==
    LET r == insert(table, Head(pairs)[1], Head(pairs)[2])
    IN  IF r.old
        THEN [ok |-> FALSE, val |-> Table(r.map)]
        ELSE IF Tail(pairs) = <<>>
        THEN [ok |-> TRUE, val |-> Table(r.map)]
        ELSE inline_table(r.map, Tail(pairs))

\* parse_value on a literal: an integer, an array `[ ... ]` of integers or
\* an inline table `{ ... }`
parse_value(lit) ==
    IF lit.kind = "integer" THEN [ok |-> TRUE, val |-> Integer(lit.n)]
    ELSE IF lit.kind = "array"
    THEN [ok |-> TRUE, val |-> Array([i \in DOMAIN lit.elems |-> Integer(lit.elems[i])])]
    ELSE inline_table(EmptyMap, lit.pairs)


-----------------------------------------------------------------------------
(* The input documents of the driver.                                      *)

\* key segments
SegA == <<"a">>
SegB == <<"b">>

\* runs of blanks (spaces or tabs) of at most MaxPad bytes
Pads == UNION {[1..n -> {" ", "TAB"}] : n \in 0..MaxPad}

\* the text of a key: its segments, a dot between them with blanks around it
RECURSIVE KeyTexts(_)
KeyTexts(path) ==
    IF Len(path) = 1
    THEN {path[1]}
    ELSE {path[1] \o pp[1] \o <<".">> \o pp[2] \o rest :
             pp \in {qq \in Pads \X Pads : Len(qq[1]) + Len(qq[2]) <= MaxPad},
             rest \in KeyTexts(Tail(path))}

\* the paths of the headers and of the key/value lines
HeaderPaths == {<<SegA>>, <<SegA, SegB>>}
ArrayHeaderPaths == {<<SegA>>}
AssignPaths == {<<SegA>>, <<SegA, SegA>>, <<SegA, SegB>>}

\* an input key: <<the path, one text of it>>
KeyInputs(paths) == UNION {{<<p, t>> : t \in KeyTexts(p)} : p \in paths}

\* value literals: integers, a one-element array, inline tables (the second
\* one repeats a key)
IntLit(n) == [kind |-> "integer", n |-> n, elems |-> <<>>, pairs |-> <<>>]
ArrayLit(xs) == [kind |-> "array", n |-> 0, elems |-> xs, pairs |-> <<>>]
InlineLit(ps) == [kind |-> "inline", n |-> 0, elems |-> <<>>, pairs |-> ps]
NoLit == [kind |-> "none", n |-> 0, elems |-> <<>>, pairs |-> <<>>]

Literals ==
    {IntLit(1), IntLit(2), ArrayLit(<<1>>),
     InlineLit(<< <<(<<SegB>>), Integer(1)>> >>),
     InlineLit(<< <<(<<SegB>>), Integer(1)>>, <<(<<SegB>>), Integer(2)>> >>)}

\* the key/value lines: <<the key input, the literal>>; a composite literal
\* is only assigned to an undotted key
AssignInputs ==
    {in \in KeyInputs(AssignPaths) \X Literals :
        in[2].kind = "integer" \/ Len(in[1][1]) = 1}

-----------------------------------------------------------------------------
(* Toml::parse: src/src/lib.rs.                                            *)

NoTable == [some |-> FALSE, key |-> <<>>, table |-> EmptyMap, array |-> FALSE]
SomeTable(key, array) == [some |-> TRUE, key |-> key, table |-> EmptyMap, array |-> array]

Stmt(kind, key, lit) == [kind |-> kind, key |-> key, lit |-> lit]

\* `if let Some((key, table, array)) = current_table.take() { insert_subtable(..)? }`
flush(root, cur) ==
    IF cur.some
    THEN insert_subtable(root, cur.key, cur.table, cur.array)
    ELSE [ok |-> TRUE, root |-> root]

DriverInit ==
    /\ root_table = EmptyMap
    /\ current_table = NoTable
    /\ result = "parsing"
    /\ log = <<>>

\* the `[` arm of the loop, for a header `[key]` or `[[key]]`
Header(in, array) ==
    /\ result = "parsing"
    /\ Len(log) < MaxStmts
    /\ LET flushed == flush(root_table, current_table)
           h == parse_header(in[2] \o <<"]">>)
       IN  /\ log' = Append(log, Stmt(IF array THEN "array_table" ELSE "table",
                                      in[1], NoLit))
           /\ IF ~flushed.ok
              THEN /\ result' = "ReusedKey"
                   /\ UNCHANGED <<root_table, current_table>>
              ELSE IF ~h.ok
              THEN /\ result' = h.err
                   /\ root_table' = flushed.root
                   /\ current_table' = NoTable
              ELSE /\ root_table' = flushed.root
                   /\ current_table' = SomeTable(h.key, array)
                   /\ UNCHANGED result
    /\ UNCHANGED <<numvars, strvars, keyvars, adaptvars, valvars,
                   derivevars>>

TableHeader == \E in \in KeyInputs(HeaderPaths) : Header(in, FALSE)

ArrayTableHeader == \E in \in KeyInputs(ArrayHeaderPaths) : Header(in, TRUE)

\* the `_` arm of the loop: a key/value line
KeyValue ==
    /\ result = "parsing"
    /\ Len(log) < MaxStmts
    /\ \E in \in AssignInputs :
          LET a == parse_assignment(in[1][2] \o <<"=">>)
              v == parse_value(in[2])
          IN  /\ log' = Append(log, Stmt("assign", in[1][1], in[2]))
              /\ IF ~a.ok
                 THEN /\ result' = a.err
                      /\ UNCHANGED <<root_table, current_table>>
                 ELSE IF ~v.ok
                 THEN /\ result' = "ReusedKey"
                      /\ UNCHANGED <<root_table, current_table>>
                 ELSE IF current_table.some
                 THEN /\ current_table' =
                            [current_table EXCEPT
                                !.table = insert(current_table.table, a.key, v.val).map]
                      /\ UNCHANGED <<root_table, result>>
                 ELSE /\ root_table' = insert(root_table, a.key, v.val).map
                      /\ UNCHANGED <<current_table, result>>
    /\ UNCHANGED <<numvars, strvars, keyvars, adaptvars, valvars,
                   derivevars>>

\* the end of the input: the last table is inserted and the root returned
Finish ==
    /\ result = "parsing"
    /\ LET flushed == flush(root_table, current_table)
       IN  IF flushed.ok
           THEN /\ root_table' = flushed.root
                /\ current_table' = NoTable
                /\ result' = "Ok"
           ELSE /\ result' = "ReusedKey"
                /\ UNCHANGED <<root_table, current_table>>
    /\ UNCHANGED <<log, numvars, strvars, keyvars, adaptvars, valvars,
                   derivevars>>

-----------------------------------------------------------------------------
(* Numbers: src/src/parser/num.rs.                                         *)

\* i64, scaled to IntBits bits: IntBits stands for the 64 of the source
i64_MIN == -(2 ^ (IntBits - 1))
i64_MAX == 2 ^ (IntBits - 1) - 1

\* i64::checked_mul, i64::checked_sub: some = FALSE is None
in_i64(n) == [some |-> n >= i64_MIN /\ n <= i64_MAX, v |-> n]
checked_mul(a, b) == CHOOSE r \in {in_i64(n) : n \in {a * b}} : TRUE
checked_sub(a, b) == CHOOSE r \in {in_i64(n) : n \in {a - b}} : TRUE
\* i64::unsigned_abs
unsigned_abs(n) == IF n < 0 THEN -n ELSE n

\* u8::is_ascii_whitespace
is_ascii_whitespace(b) == b \in {" ", "TAB", "LF", "FF", "CR"}

\* u8::is_ascii_digit and the value byte - b'0'
DecDigits == <<"0", "1", "2", "3", "4", "5", "6", "7", "8", "9">>
is_ascii_digit(b) == \E i \in DOMAIN DecDigits : DecDigits[i] = b
digit(b) == (CHOOSE i \in DOMAIN DecDigits : DecDigits[i] = b) - 1

is_end_of_int(b) == is_ascii_whitespace(b) \/ b \in {",", ".", "]", "}", "#"}
is_end_of_float(b) == is_ascii_whitespace(b) \/ b \in {",", "]", "}", "#"}

\* what the number parser returns and where it leaves the cursor
NumIdle == [state |-> "idle", ok |-> FALSE, kind |-> "none", val |-> 0,
            idx |-> 0, err |-> "none"]
NumOk(kind, val, idx) == [state |-> "done", ok |-> TRUE, kind |-> kind,
                          val |-> val, idx |-> idx, err |-> "none"]
NumErr(err, idx) == [state |-> "done", ok |-> FALSE, kind |-> "none",
                     val |-> 0, idx |-> idx, err |-> err]

\* a faulty sign handling, to compare with: no test of the magnitude, the
\* negation wraps
signed_result_unchecked(running_num, negative, idx) ==
    IF negative THEN NumOk("Integer", running_num, idx)
    ELSE IF -running_num > i64_MAX THEN NumOk("Integer", running_num, idx)
    ELSE NumOk("Integer", -running_num, idx)

\* the sign applied to the negated accumulator at the end of both loops
signed_result(running_num, negative, idx) ==
    IF negative THEN NumOk("Integer", running_num, idx)
    ELSE IF unsigned_abs(running_num) > i64_MAX THEN NumErr("NumberTooLarge", idx)
    ELSE NumOk("Integer", -running_num, idx)

\* a faulty matcher, to compare with: no upper-case hexadecimal digits
matcher_lowercase(BASE, b) ==
    IF is_ascii_digit(b) /\ digit(b) < BASE THEN digit(b)
    ELSE IF BASE = 16 /\ b \in {"a", "b", "c", "d", "e", "f"}
    THEN 9 + (CHOOSE i \in 1..6 : <<"a", "b", "c", "d", "e", "f">>[i] = b)
    ELSE -1

\* the matchers of parse_hex_int, parse_oct_int and parse_bin_int; -1 is None
HexLower == <<"a", "b", "c", "d", "e", "f">>
HexUpper == <<"A", "B", "C", "D", "E", "F">>
matcher(BASE, b) ==
    IF is_ascii_digit(b) /\ digit(b) < BASE THEN digit(b)
    ELSE IF BASE = 16 /\ \E i \in DOMAIN HexLower : HexLower[i] = b
    THEN 9 + (CHOOSE i \in DOMAIN HexLower : HexLower[i] = b)
    ELSE IF BASE = 16 /\ \E i \in DOMAIN HexUpper : HexUpper[i] = b
    THEN 9 + (CHOOSE i \in DOMAIN HexUpper : HexUpper[i] = b)
    ELSE -1

RECURSIVE parse_int_with_base(_, _, _, _, _)
\* the loop of parse_int_with_base from cursor idx with accumulator
\* running_int: the byte is consumed before it is looked at
parse_int_with_base(text, idx, negative, BASE, running_int) ==
    LET b == byte(text, idx)
    IN  IF b = None THEN signed_result(running_int, negative, idx)
        ELSE IF b = "_"
        THEN parse_int_with_base(text, idx + 1, negative, BASE, running_int)
        ELSE IF is_end_of_int(b) THEN signed_result(running_int, negative, idx + 1)
        ELSE IF matcher(BASE, b) # -1
        THEN LET m == checked_mul(running_int, BASE)
                 s == checked_sub(m.v, matcher(BASE, b))
             IN  IF ~m.some THEN NumErr("NumberTooLarge", idx + 1)
                 ELSE IF ~s.some THEN NumErr("NumberTooLarge", idx + 1)
                 ELSE parse_int_with_base(text, idx + 1, negative, BASE, s.v)
        ELSE parse_int_with_base(text, idx + 1, negative, BASE, running_int)

parse_hex_int(text, idx, negative) == parse_int_with_base(text, idx, negative, 16, 0)
parse_oct_int(text, idx, negative) == parse_int_with_base(text, idx, negative, 8, 0)
parse_bin_int(text, idx, negative) == parse_int_with_base(text, idx, negative, 2, 0)

RECURSIVE end_of_float(_, _)
\* the first byte from p on that ends a float; the length of the text when
\* there is none
end_of_float(text, p) ==
    IF byte(text, p) = None \/ is_end_of_float(byte(text, p)) THEN p
    ELSE end_of_float(text, p + 1)

RECURSIVE without_underscores(_)
without_underscores(s) ==
    IF s = <<>> THEN <<>>
    ELSE (IF Head(s) = "_" THEN <<>> ELSE <<Head(s)>>) \o without_underscores(Tail(s))

RECURSIVE after_digits(_, _)
\* the place after the digits that stand at place i of s
after_digits(s, i) ==
    IF i <= Len(s) /\ is_ascii_digit(s[i]) THEN after_digits(s, i + 1) ELSE i

\* the digits of s from place i0 on make a decimal number with an optional
\* point and an optional exponent, up to the end of s
decimal_float(s, i0) ==
    \E i1 \in {after_digits(s, i0)} :
        \E point \in {i1 <= Len(s) /\ s[i1] = "."} :
            \E i2 \in {IF point THEN after_digits(s, i1 + 1) ELSE i1} :
                /\ (i1 - i0) + (IF point THEN i2 - i1 - 1 ELSE 0) > 0
                /\ IF i2 <= Len(s) /\ s[i2] \in {"e", "E"}
                   THEN \E j \in {IF i2 + 1 <= Len(s) /\ s[i2 + 1] \in {"+", "-"}
                                  THEN i2 + 2 ELSE i2 + 1} :
                            \E i3 \in {after_digits(s, j)} :
                                i3 > j /\ i3 = Len(s) + 1
                   ELSE i2 = Len(s) + 1

\* str::parse::<f64> accepts s: a sign, digits with a point among them, an
\* exponent; the value itself is not modelled
f64_from_str(s) ==
    \E str \in {s} :
        \E i0 \in {IF str # <<>> /\ str[1] \in {"+", "-"} THEN 2 ELSE 1} :
            \/ SubSeq(str, i0, Len(str)) \in {<<"i", "n", "f">>, <<"n", "a", "n">>}
            \/ decimal_float(str, i0)

\* parse_float, called with the cursor at idx: the bytes from start to the
\* first terminator are parsed, and the cursor is moved to that terminator
\* if one was found
parse_float(text, idx, start, negative) ==
    LET p == end_of_float(text, start)
        cursor == IF byte(text, p) = None THEN idx ELSE p
        str == without_underscores(SubSeq(text, start + 1, p))
    IN  IF f64_from_str(str) THEN NumOk("Float", 0, cursor)
        ELSE NumErr("InvalidNumber", cursor)

\* a panic of the dev profile: a failed debug assertion or an arithmetic
\* overflow
NumPanic(idx) == NumErr("panic", idx)

\* --- src/src/parser/time.rs ---

TomlTime(hour, minute, second, nanosecond) ==
    [hour |-> hour, minute |-> minute, second |-> second,
     nanosecond |-> nanosecond]
TomlDate(year, month, month_day) ==
    [year |-> year, month |-> month, month_day |-> month_day]
TomlOffset(hour, minute) == [hour |-> hour, minute |-> minute]

\* parse_two_digits: Option<u8> and where the cursor is left
two_digits_at(text, idx) ==
    LET first == byte(text, idx)
        second == byte(text, idx + 1)
    IN  IF first = None \/ ~is_ascii_digit(first)
        THEN [some |-> FALSE, v |-> 0, idx |-> idx]
        ELSE IF second = None \/ ~is_ascii_digit(second)
        THEN [some |-> FALSE, v |-> 0, idx |-> idx + 1]
        ELSE [some |-> TRUE, v |-> digit(first) * 10 + digit(second),
              idx |-> idx + 2]

\* parse_two_digits, called with the cursor where the caller has left it
parse_two_digits(text, idx) ==
    CHOOSE r \in {two_digits_at(text, i) : i \in {idx}} : TRUE

\* const NANOSECOND_DIGIT: u8 = 8
NANOSECOND_DIGIT == 8

\* `nanosecond *= 10` on a u32: the product modulo 2^32 and whether it
\* overflowed (2^32 = 429496729 * 10 + 6, 2^33 = 858993459 * 10 + 2)
u32_mul_10(n) ==
    IF n <= 429496729 THEN [overflow |-> FALSE, v |-> n * 10]
    ELSE IF n <= 858993459
    THEN [overflow |-> TRUE, v |-> (n - 429496729) * 10 - 6]
    ELSE [overflow |-> TRUE, v |-> (n - 858993459) * 10 - 2]

RECURSIVE skip_digits(_, _)
\* the inner loop that passes over the digits past the nanoseconds
skip_digits(text, idx) ==
    IF byte(text, idx) # None /\ is_ascii_digit(byte(text, idx))
    THEN skip_digits(text, idx + 1)
    ELSE idx

RECURSIVE pad_nanosecond(_, _)
\* for _ in digits..NANOSECOND_DIGIT { nanosecond *= 10; }
pad_nanosecond(nanosecond, digits) ==
    IF digits >= NANOSECOND_DIGIT THEN nanosecond
    ELSE pad_nanosecond(nanosecond * 10, digits + 1)

RECURSIVE fraction(_, _, _, _)
\* the loop over the digits after the `.` of a time, then the padding:
\* the nanoseconds, the cursor, and whether the u32 overflowed
fraction(text, idx, digits, nanosecond) ==
    LET b == byte(text, idx)
        m == u32_mul_10(nanosecond + digit(b))
    IN  IF b = None \/ ~is_ascii_digit(b)
        THEN [panic |-> FALSE, idx |-> idx,
              nanosecond |-> pad_nanosecond(nanosecond, digits)]
        ELSE IF m.overflow /\ debug_build
        THEN [panic |-> TRUE, idx |-> idx, nanosecond |-> 0]
        ELSE IF digits + 1 > NANOSECOND_DIGIT
        THEN [panic |-> FALSE, idx |-> skip_digits(text, idx + 1),
              nanosecond |-> pad_nanosecond(m.v, digits + 1)]
        ELSE fraction(text, idx + 1, digits + 1, m.v)

\* parse_time: the cursor is at the byte after the hour
parse_time(hour, start, text, idx) ==
    LET minute == parse_two_digits(text, idx + 1)
        second == parse_two_digits(text, minute.idx + 1)
        f == fraction(text, second.idx + 1, 0, 0)
    IN  IF debug_build /\ byte(text, idx) # ":" THEN NumPanic(idx)
        ELSE IF ~minute.some THEN NumErr("TimeMissingMinute", minute.idx)
        ELSE IF byte(text, minute.idx) # ":"
        THEN NumErr("TimeMissingColon", minute.idx)
        ELSE IF ~second.some THEN NumErr("TimeMissingSecond", second.idx)
        ELSE IF byte(text, second.idx) = "."
        THEN IF f.panic THEN NumPanic(f.idx)
             ELSE NumOk("Time",
                        TomlTime(hour, minute.v, second.v, f.nanosecond),
                        f.idx)
        ELSE NumOk("Time", TomlTime(hour, minute.v, second.v, 0), second.idx)

\* the offset of a date-time, after its `+` or `-`
parse_offset(date, time, negative, text, idx) ==
    LET hour == parse_two_digits(text, idx)
        minute == parse_two_digits(text, hour.idx + 1)
    IN  IF ~hour.some THEN NumErr("TimeMissingMinute", hour.idx)
        ELSE IF byte(text, hour.idx) # ":"
        THEN NumErr("OffsetMissingHour", hour.idx)
        ELSE IF ~minute.some THEN NumErr("OffsetMissingMinute", minute.idx)
        ELSE NumOk("OffsetDateTime",
                   [offset |-> TomlOffset(IF negative THEN -hour.v
                                          ELSE hour.v, minute.v),
                    date |-> date, time |-> time],
                   minute.idx)

\* parse_date: the cursor is at the `-` after the year
parse_date(year, start, text, idx) ==
    LET month == parse_two_digits(text, idx + 1)
        month_day == parse_two_digits(text, month.idx + 1)
        date == TomlDate(year, month.v, month_day.v)
        hour == parse_two_digits(text, month_day.idx + 1)
        time == parse_time(hour.v, start, text, hour.idx)
    IN  IF debug_build /\ byte(text, idx) # "-" THEN NumPanic(idx)
        ELSE IF ~month.some THEN NumErr("DateMissingMonth", month.idx)
        ELSE IF byte(text, month.idx) # "-"
        THEN NumErr("DateMissingDash", month.idx)
        ELSE IF ~month_day.some THEN NumErr("DateMissingDay", month_day.idx)
        ELSE IF byte(text, month_day.idx) \in {" ", "T", "t"}
        THEN IF ~hour.some THEN NumOk("Date", date, hour.idx)
             ELSE IF ~time.ok THEN time
             ELSE IF byte(text, time.idx) \in {"Z", "z"}
             THEN NumOk("OffsetDateTime",
                        [offset |-> TomlOffset(0, 0), date |-> date,
                         time |-> time.val],
                        time.idx + 1)
             ELSE IF byte(text, time.idx) \in {"+", "-"}
             THEN parse_offset(date, time.val, byte(text, time.idx) = "-",
                               text, time.idx + 1)
             ELSE NumOk("DateTime", [date |-> date, time |-> time.val],
                        time.idx)
        ELSE NumOk("Date", date, month_day.idx)

\* --- src/src/parser/num.rs, continued ---

RECURSIVE leading_zero_lenient(_, _, _, _)
\* a faulty leading-zero branch, to compare with: the number of digits
\* before the `:` or the `-` is not tested
leading_zero_lenient(text, idx, start, num) ==
    LET b == byte(text, idx)
    IN  IF b = None THEN NumErr("NumberHasLeadingZero", idx)
        ELSE IF idx - start > 4 THEN NumErr("NumberHasLeadingZero", idx)
        ELSE IF ~is_ascii_digit(b)
        THEN IF b = ":" THEN parse_time(num, start, text, idx)
             ELSE IF b = "-" THEN parse_date(num, start, text, idx)
             ELSE NumErr("NumberHasLeadingZero", idx)
        ELSE leading_zero_lenient(text, idx + 1, start, num * 10 + digit(b))

RECURSIVE leading_zero(_, _, _, _)
\* parse_number after `0` and one more digit: a time, a date or an error
leading_zero(text, idx, start, num) ==
    LET b == byte(text, idx)
    IN  IF b = None THEN NumErr("NumberHasLeadingZero", idx)
        ELSE IF idx - start > 4 THEN NumErr("NumberHasLeadingZero", idx)
        ELSE IF ~is_ascii_digit(b)
        THEN IF idx - start = 2 /\ b = ":"
             THEN parse_time(num, start, text, idx)
             ELSE IF idx - start = 4 /\ b = "-"
             THEN parse_date(num, start, text, idx)
             ELSE NumErr("NumberHasLeadingZero", idx)
        ELSE leading_zero(text, idx + 1, start, num * 10 + digit(b))

RECURSIVE decimal(_, _, _, _, _)
\* the decimal loop of parse_number and its final sign handling
decimal(text, idx, start, negative, running_num) ==
    LET b == byte(text, idx)
    IN  IF b = None THEN signed_result(running_num, negative, idx)
        ELSE IF b = "_" THEN decimal(text, idx + 1, start, negative, running_num)
        ELSE IF b \in {".", "e", "E"} THEN parse_float(text, idx, start, negative)
        ELSE IF b = "-"
        THEN IF idx - start = 4
             THEN parse_date(-running_num, start, text, idx)
             ELSE NumErr("DateTimeTooManyDigits", idx)
        ELSE IF b = ":"
        THEN IF idx - start = 2
             THEN parse_time(-running_num, start, text, idx)
             ELSE NumErr("DateTimeTooManyDigits", idx)
        ELSE IF is_ascii_digit(b)
        THEN LET m == checked_mul(running_num, 10)
                 s == checked_sub(m.v, digit(b))
             IN  IF ~m.some THEN NumErr("NumberTooLarge", idx)
                 ELSE IF ~s.some THEN NumErr("NumberTooLarge", idx)
                 ELSE decimal(text, idx + 1, start, negative, s.v)
        ELSE IF is_end_of_int(b) THEN signed_result(running_num, negative, idx)
        ELSE NumErr("InvalidNumber", idx)

parse_number(text, idx, negative) ==
    LET start == idx
        b == byte(text, idx + 1)
    IN  IF byte(text, idx) = "0"
        THEN IF b = "x" THEN parse_hex_int(text, idx + 2, negative)
             ELSE IF b = "o" THEN parse_oct_int(text, idx + 2, negative)
             ELSE IF b = "b" THEN parse_bin_int(text, idx + 2, negative)
             ELSE IF b \in {".", "e", "E"}
             THEN parse_float(text, idx + 1, start, negative)
             ELSE IF b # None /\ is_ascii_digit(b) THEN leading_zero(text, idx + 2, start, digit(b))
             ELSE IF b = None THEN NumOk("Integer", 0, idx + 1)
             ELSE IF is_end_of_int(b) THEN NumOk("Integer", 0, idx + 1)
             ELSE NumErr("InvalidNumber", idx + 1)
        ELSE IF byte(text, idx) = "i" /\ local_excerpt(text, idx, 3) = <<"i", "n", "f">>
        THEN NumOk("Float", 0, idx + 3)
        ELSE IF byte(text, idx) = "n" /\ local_excerpt(text, idx, 3) = <<"n", "a", "n">>
        THEN NumOk("Float", 0, idx + 3)
        ELSE decimal(text, idx, start, negative, 0)

\* parse_sign: reached on `+` or `-` only
parse_sign(text, idx) == parse_number(text, idx + 1, byte(text, idx) = "-")

\* the number arms of parser::value::parse_value
parse_number_value(text) ==
    IF byte(text, 0) \in {"+", "-"} THEN parse_sign(text, 0)
    ELSE IF byte(text, 0) # None /\ is_ascii_digit(byte(text, 0))
    THEN parse_number(text, 0, FALSE)
    ELSE NumErr("UnrecognisedValue", 0)

-----------------------------------------------------------------------------
(* The texts handed to the number parser: a sign, a base prefix, up to     *)
(* MaxDigits digits with single underscores between them, and what         *)
(* follows the number in the document.                                     *)

Signs == {<<>>, <<"+">>, <<"-">>}
Prefixes == {<<>>, <<"0", "x">>, <<"0", "o">>, <<"0", "b">>}
Followers == {<<>>, <<" ">>, <<",">>}

\* the digits the texts are written with, by prefix
NumAlphabet(prefix) ==
    IF prefix = <<>> THEN {"0", "1", "5", "6", "7"}
    ELSE IF prefix = <<"0", "x">> THEN {"0", "1", "a", "f", "F"}
    ELSE IF prefix = <<"0", "o">> THEN {"0", "1", "2", "7"}
    ELSE {"0", "1"}

\* binary numbers are written with more digits, to get as large
NumLen(prefix) == IF prefix = <<"0", "b">> THEN MaxDigits + 2 ELSE MaxDigits

RECURSIVE Separated(_, _)
\* the digits ds with an underscore after each position of the set at
Separated(ds, at) ==
    IF ds = <<>> THEN <<>>
    ELSE Separated(SubSeq(ds, 1, Len(ds) - 1), at)
         \o (IF (Len(ds) - 1) \in at THEN <<"_">> ELSE <<>>)
         \o <<ds[Len(ds)]>>

\* no underscore, one underscore, or one between every two digits
Separations(n) == {{}, 1..(n - 1)} \cup {{p} : p \in 1..(n - 1)}

NumBodies(prefix) ==
    UNION {{Separated(ds, at) : ds \in [1..n -> NumAlphabet(prefix)],
                                at \in Separations(n)} : n \in 1..NumLen(prefix)}

\* the digits before the first `:` or `-` of a time or a date: up to four,
\* with a leading zero or small enough for the integer width
RECURSIVE DigitsValue(_)
DigitsValue(ds) ==
    IF ds = <<>> THEN 0
    ELSE DigitsValue(SubSeq(ds, 1, Len(ds) - 1)) * 10 + digit(ds[Len(ds)])

TimeHeads ==
    {ds \in UNION {[1..n -> {"0", "1", "5"}] : n \in 1..(MaxDigits + 1)} :
        ds[1] = "0" \/ DigitsValue(ds) <= i64_MAX}

\* digits with underscores before the first `:` or `-`
SeparatedHeads ==
    {<<"1", "_">>, <<"_", "5">>, <<"1", "_", "1">>, <<"1", "_", "_", "1">>,
     <<"_", "1", "_", "5">>}

\* what follows these digits: the rest of a time, of a date or of a
\* date-time, complete or cut short
TimeTails ==
    {<<":">>, <<":", "3", "2">>, <<":", "3", "2", ":", "0">>,
     <<":", "3", "2", ":", "0", "5">>, <<":", "3", "2", ":", "0", "5", " ">>}
DateTails ==
    {<<"-">>, <<"-", "0", "5">>, <<"-", "0", "5", "-", "2", "7">>,
     <<"-", "0", "5", "-", "2", "7", ",">>}
DateTimeTails ==
    {<<"-", "0", "5", "-", "2", "7">> \o sep \o <<"0", "7">> \o t \o off :
        sep \in {<<"T">>, <<" ">>},
        t \in {<<":", "3", "2", ":", "0", "5">>, <<"x", "3", "2", ":", "0", "5">>},
        off \in {<<>>, <<"Z">>, <<"+", "0", "1", ":", "3", "0">>,
                 <<"-", "0", "1", ":", "3", "0">>, <<"-", "0", "1">>,
                 <<"+", "0", "0", ":", "3", "0">>, <<"-", "0", "0", ":", "3", "0">>,
                 <<"-", "0", "0", ":", "0", "0">>}}

\* tokens without a digit: a sign or none, a prefix or none, an underscore
\* or none
DigitlessBodies == {<<>>, <<"_">>}

\* a byte that is no digit of the base of the prefix
OtherByte(prefix) ==
    IF prefix = <<"0", "x">> THEN "Z" ELSE IF prefix = <<"0", "o">> THEN "8" ELSE "2"

\* the digits of a number with a prefix, with such a byte among them
MixedBodies(prefix) ==
    UNION {{b \in [1..n -> {"1", "0", OtherByte(prefix)}] :
               \E i \in 1..n : b[i] = OtherByte(prefix)} : n \in 1..MaxDigits}

NumInit ==
    /\ \/ /\ \E s \in Signs, p \in Prefixes, f \in Followers :
                \E b \in NumBodies(p) \cup DigitlessBodies
                            \cup (IF p = <<>> THEN {} ELSE MixedBodies(p)) :
                   ntext = s \o p \o b \o f
          \* no integer reaches a debug assertion or unchecked arithmetic
          /\ debug_build = FALSE
       \/ /\ \E s \in Signs, h \in TimeHeads \cup SeparatedHeads,
                 t \in TimeTails \cup DateTails \cup DateTimeTails :
                ntext = s \o h \o t
          /\ debug_build \in BOOLEAN
    /\ nres = NumIdle

\* the fractional parts of the times: the first digit is one of 0, 1 and 5,
\* the others are 0 or 1
FracBodies ==
    UNION {{<<d>> \o ds : d \in {"0", "1", "5"}, ds \in [1..(n - 1) -> {"0", "1"}]} :
              n \in 1..MaxFrac}

\* a time with a fractional part, at the end of the input or before a space
TimeInit ==
    /\ \E f \in FracBodies, e \in {<<>>, <<" ">>} :
          ntext = <<"0", "7", ":", "3", "2", ":", "0", "5", ".">> \o f \o e
    /\ debug_build \in BOOLEAN
    /\ nres = NumIdle

\* parse_value on a text that starts with a sign or a digit
ParseNumber ==
    /\ nres.state = "idle"
    /\ nres' = parse_number_value(ntext)
    /\ UNCHANGED <<ntext, debug_build, drivervars, strvars, keyvars, adaptvars,
                   valvars, derivevars>>

-----------------------------------------------------------------------------
(* Strings: src/src/parser/string.rs.                                      *)

\* Text::absolute_excerpt(start..idx).as_str(): the bytes from start up to,
\* not including, idx
absolute_excerpt(text, start, idx) == SubSeq(text, start + 1, idx)

\* Text::remaining_bytes
remaining_bytes(text, idx) ==
    IF idx >= Len(text) THEN 0 ELSE Len(text) - idx - 1

\* what the string parser returns and where it leaves the cursor; string is
\* the decoded text, owned says whether it is a CowSpan::Modified
StrIdle == [state |-> "idle", ok |-> FALSE, owned |-> FALSE, string |-> <<>>,
            idx |-> 0, err |-> "none"]
StrOk(owned, string, idx) == [state |-> "done", ok |-> TRUE, owned |-> owned,
                              string |-> string, idx |-> idx, err |-> "none"]
StrErr(err, idx) == [state |-> "done", ok |-> FALSE, owned |-> FALSE,
                     string |-> <<>>, idx |-> idx, err |-> err]

\* u32::from_str_radix(s, 16): -1 is Err; a leading `+` is accepted.  A
\* value above 0x10FFFF (1114111) is not multiplied further: all that is
\* asked of it is whether it is a scalar.
RECURSIVE hex_digits_value(_)
hex_digits_value(s) ==
    IF s = <<>> THEN 0
    ELSE LET hi == hex_digits_value(SubSeq(s, 1, Len(s) - 1))
             lo == matcher(16, s[Len(s)])
         IN  IF hi = -1 \/ lo = -1 THEN -1
             ELSE IF hi > 1114111 THEN hi
             ELSE hi * 16 + lo
from_str_radix(s) ==
    IF s = <<>> THEN -1
    ELSE IF s[1] = "+" THEN (IF Len(s) = 1 THEN -1 ELSE hex_digits_value(Tail(s)))
    ELSE hex_digits_value(s)

\* char::from_u32: the scalar values are the code points that are no
\* surrogates (55296 = 0xD800, 57343 = 0xDFFF, 1114111 = 0x10FFFF)
from_u32(n) == n >= 0 /\ n <= 1114111 /\ ~(n >= 55296 /\ n <= 57343)

\* char::encode_utf8 for the scalars the texts can name: the byte of an ASCII
\* scalar, by the name the model gives it
encode_utf8(n) ==
    IF n = 8 THEN <<"BS">> ELSE IF n = 9 THEN <<"TAB">>
    ELSE IF n = 10 THEN <<"LF">> ELSE IF n = 12 THEN <<"FF">>
    ELSE IF n = 13 THEN <<"CR">> ELSE IF n = 32 THEN <<" ">>
    ELSE IF n = 34 THEN <<"DQ">> ELSE IF n = 92 THEN <<"BSL">>
    ELSE IF n = 97 THEN <<"a">> ELSE <<"U+" \o ToString(n)>>

\* the \u and \U arms of string_escape; idx is at the `u`, n is 4 or 8
unicode_escape(n, string, text, idx) ==
    IF remaining_bytes(text, idx) < n THEN StrErr("UnknownUnicodeScalar", idx)
    ELSE LET char == from_str_radix(local_excerpt(text, idx + 1, n))
         IN  IF ~from_u32(char) THEN StrErr("UnknownUnicodeScalar", idx + 1)
             ELSE StrOk(TRUE, string \o encode_utf8(char), idx + 1 + n)

\* a faulty string_escape, to compare with: \f is taken for a line feed and
\* an unknown escape for the byte after the backslash
string_escape_lenient(MULTILINE, string, text, idx) ==
    LET b == byte(text, idx + 1)
    IN  IF b = None THEN StrErr("UnknownEscapeSequence", idx + 1)
        ELSE IF b = "b" THEN StrOk(TRUE, Append(string, "BS"), idx + 2)
        ELSE IF b = "t" THEN StrOk(TRUE, Append(string, "TAB"), idx + 2)
        ELSE IF b \in {"n", "f"} THEN StrOk(TRUE, Append(string, "LF"), idx + 2)
        ELSE IF b = "r" THEN StrOk(TRUE, Append(string, "CR"), idx + 2)
        ELSE IF b = "u" THEN unicode_escape(4, string, text, idx + 1)
        ELSE IF b = "U" THEN unicode_escape(8, string, text, idx + 1)
        ELSE IF MULTILINE /\ is_ascii_whitespace(b)
        THEN StrOk(TRUE, string, skip_whitespace_allow_comments(text, idx + 1))
        ELSE StrOk(TRUE, Append(string, b), idx + 2)

\* string_escape::<MULTILINE> with the cursor idx on the backslash: the
\* string with what the escape stands for pushed, and the cursor after it
string_escape(MULTILINE, string, text, idx) ==
    LET b == byte(text, idx + 1)
    IN  IF b = None THEN StrErr("UnknownEscapeSequence", idx + 1)
        ELSE IF b = "b" THEN StrOk(TRUE, Append(string, "BS"), idx + 2)
        ELSE IF b = "t" THEN StrOk(TRUE, Append(string, "TAB"), idx + 2)
        ELSE IF b = "n" THEN StrOk(TRUE, Append(string, "LF"), idx + 2)
        ELSE IF b = "f" THEN StrOk(TRUE, Append(string, "FF"), idx + 2)
        ELSE IF b = "r" THEN StrOk(TRUE, Append(string, "CR"), idx + 2)
        ELSE IF b = "DQ" THEN StrOk(TRUE, Append(string, "DQ"), idx + 2)
        ELSE IF b = "BSL" THEN StrOk(TRUE, Append(string, "BSL"), idx + 2)
        ELSE IF b = "u" THEN unicode_escape(4, string, text, idx + 1)
        ELSE IF b = "U" THEN unicode_escape(8, string, text, idx + 1)
        ELSE IF MULTILINE /\ is_ascii_whitespace(b)
        THEN StrOk(TRUE, string, skip_whitespace_allow_comments(text, idx + 1))
        ELSE StrErr("UnknownEscapeSequence", idx + 1)

RECURSIVE basic_owned(_, _, _)
\* the inner loop of parse_basic_string, after the first escape: the bytes
\* are pushed to the owned string
basic_owned(text, idx, string) ==
    LET b == byte(text, idx)
    IN  IF b = None THEN StrErr("UnclosedBasicString", idx + 1)
        ELSE IF b = "DQ" THEN StrOk(TRUE, string, idx + 1)
        ELSE IF b = "BSL"
        THEN LET e == string_escape(FALSE, string, text, idx)
             IN  IF e.ok THEN basic_owned(text, e.idx, e.string) ELSE e
        ELSE basic_owned(text, idx + 1, Append(string, b))

RECURSIVE basic_raw(_, _, _)
\* the outer loop of parse_basic_string: up to the first escape the string
\* is the span of the text from start
basic_raw(text, idx, start) ==
    LET b == byte(text, idx)
    IN  IF b = None THEN StrErr("UnclosedBasicString", idx)
        ELSE IF b = "DQ" THEN StrOk(FALSE, absolute_excerpt(text, start, idx), idx + 1)
        ELSE IF b = "BSL"
        THEN LET e == string_escape(FALSE, absolute_excerpt(text, start, idx), text, idx)
             IN  IF e.ok THEN basic_owned(text, e.idx, e.string) ELSE e
        ELSE basic_raw(text, idx + 1, start)

\* parse_basic_string with the cursor idx on the opening quote
parse_basic_string(text, idx) == basic_raw(text, idx + 1, idx + 1)

\* the cursor is on a run of three quotes
at_delimiter(text, idx) ==
    byte(text, idx) = "DQ" /\ local_excerpt(text, idx, 3) = <<"DQ", "DQ", "DQ">>

\* a faulty reading of the quotes after the closing delimiter, to compare
\* with: they are left where they are
extra_quotes_left(text, idx) == <<>>

\* the one or two quotes that directly follow the closing delimiter, which
\* ends before idx, belong to the string
extra_quotes(text, idx) ==
    IF byte(text, idx) # "DQ" THEN <<>>
    ELSE IF byte(text, idx + 1) # "DQ" THEN <<"DQ">>
    ELSE <<"DQ", "DQ">>

RECURSIVE multiline_owned(_, _, _)
\* the inner loop of parse_multiline_basic_string
multiline_owned(text, idx, string) ==
    LET b == byte(text, idx)
    IN  IF b = None THEN StrErr("UnclosedBasicString", idx + 1)
        ELSE IF at_delimiter(text, idx)
        THEN StrOk(TRUE, string \o extra_quotes(text, idx + 3),
                   idx + 3 + Len(extra_quotes(text, idx + 3)))
        ELSE IF b = "BSL"
        THEN LET e == string_escape(TRUE, string, text, idx)
             IN  IF e.ok THEN multiline_owned(text, e.idx, e.string) ELSE e
        ELSE multiline_owned(text, idx + 1, Append(string, b))

RECURSIVE multiline_raw(_, _, _)
\* the outer loop of parse_multiline_basic_string
multiline_raw(text, idx, string_start) ==
    LET b == byte(text, idx)
    IN  IF b = None THEN StrErr("UnclosedBasicString", idx)
        ELSE IF at_delimiter(text, idx)
        THEN StrOk(FALSE,
                   absolute_excerpt(text, string_start,
                                    idx + Len(extra_quotes(text, idx + 3))),
                   idx + 3 + Len(extra_quotes(text, idx + 3)))
        ELSE IF b = "BSL"
        THEN LET e == string_escape(TRUE, absolute_excerpt(text, string_start, idx),
                                    text, idx)
             IN  IF e.ok THEN multiline_owned(text, e.idx, e.string) ELSE e
        ELSE multiline_raw(text, idx + 1, string_start)

\* parse_multiline_basic_string with the cursor idx on the opening
\* delimiter: a line feed right after it is not part of the string
parse_multiline_basic_string(text, idx) ==
    IF byte(text, idx + 3) = "LF"
    THEN multiline_raw(text, idx + 4, idx + 4)
    ELSE multiline_raw(text, idx + 3, idx + 3)

RECURSIVE literal_raw(_, _, _)
\* the loop of parse_literal_string: the string is the span of the text from
\* start to the next single quote ("SQ")
literal_raw(text, idx, start) ==
    LET b == byte(text, idx)
    IN  IF b = None THEN StrErr("UnclosedLiteralString", idx)
        ELSE IF b = "SQ" THEN StrOk(FALSE, absolute_excerpt(text, start, idx), idx + 1)
        ELSE literal_raw(text, idx + 1, start)

\* parse_literal_string with the cursor idx on the opening quote
parse_literal_string(text, idx) == literal_raw(text, idx + 1, idx + 1)

\* the cursor is on a run of three single quotes
at_literal_delimiter(text, idx) ==
    byte(text, idx) = "SQ" /\ local_excerpt(text, idx, 3) = <<"SQ", "SQ", "SQ">>

\* the one or two single quotes that directly follow the closing delimiter
extra_literal_quotes(text, idx) ==
    IF byte(text, idx) # "SQ" THEN <<>>
    ELSE IF byte(text, idx + 1) # "SQ" THEN <<"SQ">>
    ELSE <<"SQ", "SQ">>

RECURSIVE multiline_literal_raw(_, _, _)
\* the loop of parse_multiline_literal_string
multiline_literal_raw(text, idx, string_start) ==
    LET b == byte(text, idx)
    IN  IF b = None THEN StrErr("UnclosedLiteralString", idx)
        ELSE IF at_literal_delimiter(text, idx)
        THEN StrOk(FALSE,
                   absolute_excerpt(text, string_start,
                                    idx + Len(extra_literal_quotes(text, idx + 3))),
                   idx + 3 + Len(extra_literal_quotes(text, idx + 3)))
        ELSE multiline_literal_raw(text, idx + 1, string_start)

\* parse_multiline_literal_string with the cursor idx on the opening
\* delimiter: a line feed right after it is not part of the string
parse_multiline_literal_string(text, idx) ==
    IF byte(text, idx + 3) = "LF"
    THEN multiline_literal_raw(text, idx + 4, idx + 4)
    ELSE multiline_literal_raw(text, idx + 3, idx + 3)

\* parse_string on a text that starts with a single or a double quote
parse_string(text) ==
    IF byte(text, 0) = "SQ"
    THEN IF local_excerpt(text, 0, 3) = <<"SQ", "SQ", "SQ">>
         THEN parse_multiline_literal_string(text, 0)
         ELSE parse_literal_string(text, 0)
    ELSE IF local_excerpt(text, 0, 3) = <<"DQ", "DQ", "DQ">>
    THEN parse_multiline_basic_string(text, 0)
    ELSE parse_basic_string(text, 0)

-----------------------------------------------------------------------------
(* The texts handed to the string parser: an opening quote or delimiter,  *)
(* up to MaxStrLen bytes, and the same quote or delimiter again.           *)

StrAlphabet == {"BSL", "DQ", "b", "t", "n", "f", "r", "a", " ", "TAB", "LF", "CR"}
Delimiters == {<<"DQ">>, <<"DQ", "DQ", "DQ">>}
StrBodies == UNION {[1..n -> StrAlphabet] : n \in 0..MaxStrLen}

\* literal strings: single quotes, and bytes that mean nothing in them
LitAlphabet == {"SQ", "DQ", "BSL", "a", "LF"}
LitDelimiters == {<<"SQ">>, <<"SQ", "SQ", "SQ">>}
LitBodies == UNION {[1..n -> LitAlphabet] : n \in 0..MaxStrLen}

\* the bytes after a \u or a \U: none to four bytes after \u; after \U
\* one of a few groups of four bytes and then four more, or fewer than eight
UAlphabet == {"0", "1", "6", "8", "D", "f", "+", "g"}
UHeads ==
    {<<"0", "0", "0", "0">>, <<"0", "0", "1", "0">>, <<"0", "0", "1", "1">>,
     <<"+", "0", "0", "0">>, <<"f", "f", "f", "f">>}
UDigits(u) ==
    IF u = "u" THEN UNION {[1..n -> UAlphabet] : n \in 0..4}
    ELSE {h \o t : h \in UHeads, t \in [1..4 -> UAlphabet]}
         \cup {SubSeq(<<"0", "0", "0", "0", "0", "0", "6", "1">>, 1, n) : n \in 0..7}

\* a basic string with one \u or \U escape after an `a`, and before the
\* closing quote or a `0` and the closing quote
UnicodeTexts ==
    {<<"DQ", "a", "BSL", u>> \o ds \o post \o <<"DQ">> :
        u \in {"u", "U"}, ds \in UDigits("u") \cup UDigits("U"),
        post \in {<<>>, <<"0">>}}

StrInit ==
    /\ \/ \E d \in Delimiters, b \in StrBodies : stext = d \o b \o d
       \/ \E d \in LitDelimiters, b \in LitBodies : stext = d \o b \o d
       \/ stext \in UnicodeTexts
    /\ sres = StrIdle

\* parse_string on a text that starts with a quote
ParseString ==
    /\ sres.state = "idle"
    /\ sres' = parse_string(stext)
    /\ UNCHANGED <<stext, drivervars, numvars, keyvars, adaptvars, valvars,
                   derivevars>>

-----------------------------------------------------------------------------
(* Keys: src/src/parser/key.rs, with the string views of src/src/text.rs.  *)

saturating_sub(a, b) == IF a > b THEN a - b ELSE 0

\* the Span that Text::absolute_excerpt(start..end) returns: both ends are
\* inclusive
Span(text, start, end) ==
    LET last == saturating_sub(Len(text), 1)
        e == saturating_sub(end, 1)
    IN  [start |-> start, end |-> IF e < last THEN e ELSE last, source |-> text]

\* the two variants of CowSpan
Raw(span) == [owned |-> FALSE, span |-> span, string |-> <<>>]
Modified(span, string) == [owned |-> TRUE, span |-> span, string |-> string]

\* CowSpan::as_str
as_str(c) ==
    IF c.owned THEN c.string
    ELSE SubSeq(c.span.source, c.span.start + 1, c.span.end + 1)

\* impl Hash for CowSpan: what is written to the hasher, the bytes of the
\* str and the byte 0xff that ends a str
hash(c) == Append(as_str(c), "0xff")

\* a faulty eq, to compare with: the views are compared as they are stored,
\* variant by variant and field by field
eq_derived(c, d) == c = d

\* impl PartialEq for CowSpan
eq(c, d) == as_str(c) = as_str(d)

VALID_BARE_KEY_CHARS == AsciiAlphanumeric \cup {"-", "_"}

RECURSIVE bare_end(_, _)
\* the scan of a bare key in parser::key::parse_key
bare_end(text, idx) ==
    IF byte(text, idx) \in VALID_BARE_KEY_CHARS THEN bare_end(text, idx + 1)
    ELSE idx

\* parser::key::parse_key with the cursor at the start of the text: the view
\* of the key and the cursor after it
key_parse_key(text) ==
    LET quoted == IF byte(text, 0) = "SQ" THEN parse_literal_string(text, 0)
                  ELSE parse_basic_string(text, 0)
        span == Span(text, 1, quoted.idx - 1)
        idx == bare_end(text, 0)
    IN  IF byte(text, 0) \in {"SQ", "DQ"}
        THEN IF ~quoted.ok THEN [ok |-> FALSE, key |-> Raw(Span(text, 0, 0)),
                                 idx |-> quoted.idx, err |-> quoted.err]
             ELSE [ok |-> TRUE, idx |-> quoted.idx, err |-> "none",
                   key |-> IF quoted.owned THEN Modified(span, quoted.string)
                           ELSE Raw(span)]
        ELSE IF idx = 0
        THEN [ok |-> FALSE, key |-> Raw(Span(text, 0, 0)), idx |-> idx,
              err |-> "NoKeyInAssignment"]
        ELSE [ok |-> TRUE, key |-> Raw(Span(text, 0, idx)), idx |-> idx,
              err |-> "none"]

\* HashMap::entry: the stored keys with the hash of the key that are equal
\* to it
entry(map, key) == {e \in map : hash(e.key) = hash(key) /\ eq(e.key, key)}

\* the key texts: bare keys, literal strings and basic strings
KeyBodies(alphabet, n) == UNION {[1..m -> alphabet] : m \in 0..n}
KeyTexts15 ==
    (KeyBodies({"a"}, MaxKeyLen) \ {<<>>})
    \cup {<<"SQ">> \o b \o <<"SQ">> : b \in KeyBodies({"a", "BSL"}, MaxKeyLen)}
    \cup {<<"DQ">> \o b \o <<"DQ">> : b \in KeyBodies({"a", "BSL"}, MaxKeyLen)}

KeyInit == ktable = {}

\* one key of a table is parsed and looked up in the map of the table
\* (root.map.entry(key)); a key that is not found is stored
LookUpKey ==
    \E text \in KeyTexts15 :
        LET k == key_parse_key(text)
            hit == [text |-> text, key |-> k.key]
            found == entry(ktable, k.key)
        IN  /\ k.ok
            /\ IF found # {}
               THEN ktable' = {IF e \in found
                               THEN [e EXCEPT !.hits = @ \cup {hit}] ELSE e :
                               e \in ktable}
               ELSE /\ Cardinality(ktable) < MaxKeys
                    /\ ktable' = ktable \cup {[key |-> k.key, hits |-> {hit}]}
            /\ UNCHANGED <<drivervars, numvars, strvars, adaptvars, valvars,
                   derivevars>>

-----------------------------------------------------------------------------
(* The FromToml adaptors: src/src/convert_traits.rs and the code that      *)
(* src/boml-derive/src/lib.rs generates.                                   *)

\* the values of the tables that are converted
TomlInteger == [type |-> "Integer", str |-> "", map |-> EmptyMap]
TomlString(s) == [type |-> "String", str |-> s, map |-> EmptyMap]
TomlTable(m) == [type |-> "Table", str |-> "", map |-> m]

\* Result<_, TomlGetError> and Result<_, FromTomlError>: the kinds of error
\* are Missing, InvalidKey (with the key) and TypeMismatch (with the type
\* of the value that was found)
AdaptIdle == [state |-> "idle", ok |-> FALSE, kind |-> "none", key |-> "",
              ty |-> ""]
AdaptOk == [state |-> "done", ok |-> TRUE, kind |-> "none", key |-> "",
            ty |-> ""]
AdaptErr(kind, key, ty) == [state |-> "done", ok |-> FALSE, kind |-> kind,
                            key |-> key, ty |-> ty]

\* Table::get_string and Table::get_table: the TomlGetError, or Ok
get_typed(table, key, type) ==
    IF key \notin DOMAIN table THEN AdaptErr("InvalidKey", "", "")
    ELSE IF table[key].type = type THEN AdaptOk
    ELSE AdaptErr("TypeMismatch", "", table[key].type)
get_string(table, key) == get_typed(table, key, "String")
get_table(table, key) == get_typed(table, key, "Table")

\* impl From<TomlGetError> for FromTomlError
from(e) ==
    IF e.kind = "InvalidKey" THEN AdaptErr("Missing", "", "") ELSE e

\* FromTomlError::add_key_context, under map_err
add_key_context(e, key) ==
    IF ~e.ok /\ e.kind = "Missing" THEN AdaptErr("InvalidKey", key, "") ELSE e

\* the types of the fields: an integer, a string, an Option of an integer
\* and a struct with the one integer field x
InnerFields == << [name |-> "x", ty |-> "Integer"] >>

RECURSIVE from_toml_value(_, _, _)
RECURSIVE create_named_ctor(_, _)
\* FromTomlValue::from_toml_value for the type ty of a field, on
\* table.get(key), and the from_toml that is derived for a struct
from_toml_value(ty, table, key) ==
    IF key \notin DOMAIN table
    THEN IF ty = "OptInteger" THEN AdaptOk ELSE AdaptErr("Missing", "", "")
    ELSE IF ty = "Inner"
    THEN IF table[key].type = "Table"
         THEN create_named_ctor(InnerFields, table[key].map)
         ELSE AdaptErr("TypeMismatch", "", "Table")
    ELSE IF table[key].type = (IF ty = "OptInteger" THEN "Integer" ELSE ty)
    THEN AdaptOk
    ELSE AdaptErr("TypeMismatch", "", table[key].type)

\* the constructor create_named_ctor generates: field after field,
\* table.get(name).toml_try_into().map_err(|e| e.add_key_context(name))?
create_named_ctor(fields, table) ==
    IF fields = <<>> THEN AdaptOk
    ELSE LET f == Head(fields)
             r == add_key_context(from_toml_value(f.ty, table, f.name), f.name)
         IN  IF ~r.ok THEN r ELSE create_named_ctor(Tail(fields), table)

\* the match over the variants of an enum: the constructor of the variant
\* that is named, InvalidKey(key) for a name of no variant
match_variant(variants, key, table) ==
    IF key \in DOMAIN variants THEN create_named_ctor(variants[key], table)
    ELSE AdaptErr("InvalidKey", key, "")

\* EnumStrategy::TagInternal(tag)
tag_internal(tag, variants, table) ==
    LET key == add_key_context(from(get_string(table, tag)), tag)
    IN  IF ~key.ok THEN key
        ELSE match_variant(variants, table[tag].str, table)

\* EnumStrategy::TagAdjecent(tag, content)
tag_adjacent(tag, content, variants, table) ==
    LET key == add_key_context(from(get_string(table, tag)), tag)
        inner == add_key_context(from(get_table(table, content)), tag)
    IN  IF ~key.ok THEN key
        ELSE IF ~inner.ok THEN inner
        ELSE match_variant(variants, table[tag].str, table[content].map)

\* the types the tables are converted to: two structs, an enum with an
\* internal tag and an enum with a tag and a content key
NoShape == [kind |-> "none", tag |-> "", content |-> "", fields |-> <<>>]
Variants ==
    ("A" :> << [name |-> "x", ty |-> "Integer"] >>) @@ ("B" :> <<>>)
Shapes ==
    {[kind |-> "struct", tag |-> "", content |-> "",
      fields |-> << [name |-> "x", ty |-> "Integer"],
                    [name |-> "y", ty |-> "OptInteger"],
                    [name |-> "c", ty |-> "String"] >>],
     [kind |-> "struct", tag |-> "", content |-> "",
      fields |-> << [name |-> "c", ty |-> "Inner"],
                    [name |-> "t", ty |-> "String"] >>],
     [kind |-> "internal", tag |-> "t", content |-> "", fields |-> <<>>],
     [kind |-> "adjacent", tag |-> "t", content |-> "c", fields |-> <<>>]}

\* the derived from_toml on Some(TomlValue::Table(table))
from_toml(shape, table) ==
    IF shape.kind = "struct" THEN create_named_ctor(shape.fields, table)
    ELSE IF shape.kind = "internal" THEN tag_internal(shape.tag, Variants, table)
    ELSE tag_adjacent(shape.tag, shape.content, Variants, table)

\* the tables: each of the keys t, c, x, y is absent or bound to a value
AdaptKeys == {"t", "c", "x", "y"}
AdaptValues(k) ==
    IF k = "t" THEN {TomlString("A"), TomlString("B"), TomlString("Z"), TomlInteger}
    ELSE IF k = "c"
    THEN {TomlString("A"), TomlInteger, TomlTable(EmptyMap),
          TomlTable("x" :> TomlInteger), TomlTable("x" :> TomlString("A"))}
    ELSE {TomlInteger, TomlString("A")}
AdaptTables ==
    UNION {{m \in [ks -> UNION {AdaptValues(k) : k \in ks}] :
               \A k \in ks : m[k] \in AdaptValues(k)} : ks \in SUBSET AdaptKeys}

AdaptInit ==
    /\ atable \in AdaptTables
    /\ ashape \in Shapes
    /\ ares = AdaptIdle

\* T::from_toml on the table
Convert ==
    /\ ares.state = "idle"
    /\ ares' = from_toml(ashape, atable)
    /\ UNCHANGED <<atable, ashape, drivervars, numvars, strvars, keyvars,
                   valvars, derivevars>>

-----------------------------------------------------------------------------
(* Values: src/src/parser/value.rs.  One step of the model is one pass      *)
(* through a part of the loop of an array or of an inline table, or one     *)
(* iteration of the loop of parser::key::parse_nested.                      *)

\* a value of which the model keeps the kind only
Scalar(type) == [type |-> type, v |-> 0, map |-> EmptyMap, items |-> <<>>]

\* what the outermost parse_value returned
ValIdle == [state |-> "idle", ok |-> FALSE, err |-> "none", value |-> Scalar("none")]
ValRun == [state |-> "run", ok |-> FALSE, err |-> "none", value |-> Scalar("none")]
ValOk(value) == [state |-> "done", ok |-> TRUE, err |-> "none", value |-> value]
ValErr(err) == [state |-> "done", ok |-> FALSE, err |-> err, value |-> Scalar("none")]

\* F of x, with x computed once and then used as often as F needs it
Once(x, F(_)) == CHOOSE r \in {F(y) : y \in {x}} : TRUE

\* the text from the cursor on
remainder(text, idx) == SubSeq(text, idx + 1, Len(text))

\* a call of parse_value that has entered the loop of an array or of an
\* inline table: `start`, `array` and `table` of the source, the part of the
\* loop it is in, and for a table the place the key has led to
Frame(kind, start) ==
    [kind |-> kind, phase |-> "head", start |-> start, items |-> <<>>,
     map |-> EmptyMap, path |-> <<>>, key |-> <<>>]

\* the cursor, the calls and the result after a step
Out(idx, stack, res) == [idx |-> idx, stack |-> stack, res |-> res]

\* the `?` and the `return Err`: the error leaves every call
Raise(idx, err) == Out(idx, <<>>, ValErr(err))

RECURSIVE table_at(_, _)
\* the map of the table that the path of keys leads to (`root` of
\* parse_nested)
table_at(map, path) ==
    IF path = <<>> THEN map ELSE table_at(map[Head(path)].map, Tail(path))

RECURSIVE put_at(_, _, _, _)
\* a write through `root`: the key is bound to the value in that table
put_at(map, path, key, value) ==
    IF path = <<>> THEN Put(map, key, value)
    ELSE Put(map, Head(path),
             Table(put_at(map[Head(path)].map, Tail(path), key, value)))

\* what an arm of parse_value that is neither an array nor an inline table
\* returns
ScalarOk(value, idx) == [ok |-> TRUE, err |-> "none", value |-> value, idx |-> idx]
ScalarErr(err, idx) ==
    [ok |-> FALSE, err |-> err, value |-> Scalar("none"), idx |-> idx]

\* `.map(TomlValue::String)` on what parse_string returned for the text
\* from idx on
string_value(s, idx) ==
    IF s.ok THEN ScalarOk(Scalar("String"), idx + s.idx)
    ELSE ScalarErr(s.err, idx + s.idx)

\* the value of what parse_sign or parse_number returned for the text from
\* idx on
number_value(n, idx) ==
    IF ~n.ok THEN ScalarErr(n.err, idx + n.idx)
    ELSE IF n.kind = "Integer" THEN ScalarOk(Integer(n.val), idx + n.idx)
    ELSE ScalarOk(Scalar(n.kind), idx + n.idx)

\* the arms of parse_value that are neither an array nor an inline table
scalar_value(text, idx) ==
    LET b == byte(text, idx)
    IN  IF b \in {"SQ", "DQ"}
        THEN Once(parse_string(remainder(text, idx)),
                  LAMBDA s : string_value(s, idx))
        ELSE IF b = "t" /\ local_excerpt(text, idx, 4) = <<"t", "r", "u", "e">>
        THEN ScalarOk(Scalar("Boolean"), idx + 4)
        ELSE IF b = "f" /\ local_excerpt(text, idx, 5) = <<"f", "a", "l", "s", "e">>
        THEN ScalarOk(Scalar("Boolean"), idx + 5)
        ELSE IF b = "i" /\ local_excerpt(text, idx, 3) = <<"i", "n", "f">>
        THEN ScalarOk(Scalar("Float"), idx + 3)
        ELSE IF b = "n" /\ local_excerpt(text, idx, 3) = <<"n", "a", "n">>
        THEN ScalarOk(Scalar("Float"), idx + 3)
        ELSE IF b \in {"+", "-"} \/ is_ascii_digit(b)
        THEN Once(parse_number_value(remainder(text, idx)),
                  LAMBDA n : number_value(n, idx))
        ELSE ScalarErr("UnrecognisedValue", idx)

\* a call of parse_value returns Ok(value) with the cursor at idx: to the
\* caller of the parser, or into the loop that called it (array.push,
\* entry.insert)
return_value(value, idx, stack) ==
    IF stack = <<>> THEN Out(idx, <<>>, ValOk(value))
    ELSE LET f == stack[Len(stack)]
         IN  Out(idx,
                 SetLast(stack,
                         IF f.kind = "array"
                         THEN [f EXCEPT !.items = Append(@, value), !.phase = "after"]
                         ELSE [f EXCEPT !.map = put_at(@, f.path, f.key, value),
                                        !.phase = "after", !.path = <<>>,
                                        !.key = <<>>]),
                 ValRun)

\* the end of such an arm: Ok(value), or the error
return_scalar(r, stack) ==
    IF r.ok THEN return_value(r.value, r.idx, stack) ELSE Raise(r.idx, r.err)

\* parse_value is called with the cursor at idx: an array and an inline
\* table enter their loop, every other value is parsed and returned
call_parse_value(text, idx, stack) ==
    LET b == byte(text, idx)
    IN  IF b = "[" THEN Out(idx + 1, Append(stack, Frame("array", idx)), ValRun)
        ELSE IF b = "{" THEN Out(idx + 1, Append(stack, Frame("table", idx)), ValRun)
        ELSE Once(scalar_value(text, idx), LAMBDA r : return_scalar(r, stack))

\* one iteration of the loop of parse_nested for the table on top of the
\* stack: a key, and either the dot after it and the step into the table of
\* that name, or the return of the table reached and the last key; k is
\* what parse_key returned for the text from idx on
parse_nested(k, text, idx, stack) ==
    LET f == stack[Len(stack)]
        name == as_str(k.key)
        i == skip_whitespace(text, idx + k.idx)
        j == skip_whitespace(text, i + 1)
        root == table_at(f.map, f.path)
    IN  IF ~k.ok THEN Raise(idx + k.idx, k.err)
        ELSE IF byte(text, i) # "."
        THEN Out(i, SetLast(stack, [f EXCEPT !.phase = "equals", !.key = name]),
                 ValRun)
        ELSE IF name \in DOMAIN root
        THEN IF root[name].type = "Table"
             THEN Out(j, SetLast(stack, [f EXCEPT !.phase = "key",
                                                  !.path = Append(@, name)]),
                      ValRun)
             ELSE Raise(j, "ReusedKey")
        ELSE Out(j, SetLast(stack,
                            [f EXCEPT !.phase = "key",
                                      !.map = put_at(@, f.path, name, Table(EmptyMap)),
                                      !.path = Append(@, name)]),
                 ValRun)

\* TomlTable::value_entry, around parse_nested: the entry of the last key in
\* the table reached has to be vacant
value_entry(out) ==
    IF out.res.state = "run"
    THEN LET f == out.stack[Len(out.stack)]
         IN  IF f.phase = "equals" /\ f.key \in DOMAIN table_at(f.map, f.path)
             THEN Raise(out.idx, "ReusedKey")
             ELSE out
    ELSE out

\* --- the texts handed to parse_value ---

\* the elements of the arrays
Elems ==
    {<<"1">>, <<"0", "x", "1">>, <<"1", ".", "5">>, <<"[", "1", "]">>, <<"{", "}">>}

\* an element with what follows it: nothing, a comma, a space or a line
\* feed
ArrayCells ==
    {e \o c : e \in Elems, c \in {<<>>, <<",">>, <<" ">>, <<"LF">>}}

\* the keys of the assignments of the inline tables, with what stands
\* before the `=`, and their values
TableKeys ==
    {<<"a">>, <<"a", "LF">>, <<"a", ".", "b">>, <<"a", "LF", ".", "b">>}
TableValues == {<<"1">>, <<"0", "b", "1">>}

\* an assignment with what follows it
TableCells ==
    {k \o <<"=">> \o v \o c :
        k \in TableKeys, v \in TableValues, c \in {<<>>, <<",">>, <<",", "LF">>}}

RECURSIVE Concat(_)
Concat(ss) == IF ss = <<>> THEN <<>> ELSE Head(ss) \o Concat(Tail(ss))

\* up to MaxElems cells between the brackets, the closing one there or not
Bracketed(open, cells, close) ==
    UNION {{open \o Concat(cs) \o c : cs \in [1..n -> cells], c \in {close, <<>>}} :
              n \in 0..MaxElems}

\* values that are neither arrays nor tables, and what follows them in a
\* document
Scalars ==
    {<<"1">>, <<"+", "1">>, <<"0", "x", "1">>, <<"0", "o", "1">>, <<"0", "b", "1">>,
     <<"1", ".", "5">>, <<"1", "e", "1">>, <<"0", ".", "5">>, <<"i", "n", "f">>,
     <<"-", "n", "a", "n">>, <<"t", "r", "u", "e">>, <<"f", "a", "l", "s", "e">>,
     <<"DQ", "a", "DQ">>, <<"SQ", "a", "SQ">>,
     <<"0", "7", ":", "3", "2", ":", "0", "5">>,
     <<"0", "1", "1", "1", "-", "0", "5", "-", "2", "7">>,
     <<"0", "1", "1", "1", "-", "0", "5", "-", "2", "7", "T", "0", "7", ":", "3",
       "2", ":", "0", "5">>,
     <<"0", "1", "1", "1", "-", "0", "5", "-", "2", "7", "T", "0", "7", "x", "3",
       "2", ":", "0", "5">>}
ScalarFollowers == {<<>>, <<",">>, <<"]">>, <<"}">>, <<"#">>, <<" ">>, <<"LF">>}

ValTexts ==
    Bracketed(<<"[">>, ArrayCells, <<"]">>)
    \cup Bracketed(<<"{">>, TableCells, <<"}">>)
    \cup {s \o f : s \in Scalars, f \in ScalarFollowers}

ValInit ==
    /\ vtext \in ValTexts
    /\ vidx = 0 /\ vstack = <<>> /\ vres = ValIdle

\* --- the steps ---

\* the cursor, the calls and the result become those of out
Apply(out) ==
    /\ \E o \in {out} : vidx' = o.idx /\ vstack' = o.stack /\ vres' = o.res
    /\ UNCHANGED <<vtext, drivervars, numvars, strvars, keyvars, adaptvars,
                 derivevars>>

\* the call on top of the stack is in that part of the loop of that kind
InLoop(kind, phase) ==
    /\ vres.state = "run" /\ vstack # <<>>
    /\ vstack[Len(vstack)].kind = kind /\ vstack[Len(vstack)].phase = phase

\* the outermost call of parse_value
ParseValue ==
    /\ vres.state = "idle"
    /\ Apply(call_parse_value(vtext, vidx, vstack))

\* the loop of the array from its top to the call of parse_value for an
\* element
ArrayElement ==
    /\ InLoop("array", "head")
    /\ LET i == skip_whitespace(vtext, vidx)
           f == vstack[Len(vstack)]
       IN  Apply(IF byte(vtext, i) = "]"
                 THEN return_value(Array(f.items), i + 1,
                                   SubSeq(vstack, 1, Len(vstack) - 1))
                 ELSE IF byte(vtext, i) = None
                 THEN Raise(i, "UnclosedArrayBracket")
                 ELSE call_parse_value(vtext, i, vstack))

\* the loop of the array from the return of an element to its end
ArrayDelimiter ==
    /\ InLoop("array", "after")
    /\ LET i == skip_whitespace(vtext, vidx)
           f == vstack[Len(vstack)]
       IN  Apply(IF byte(vtext, i) = ","
                 THEN Out(skip_whitespace(vtext, i + 1),
                          SetLast(vstack, [f EXCEPT !.phase = "head"]), ValRun)
                 ELSE IF byte(vtext, i) = "]"
                 THEN return_value(Array(f.items), i + 1,
                                   SubSeq(vstack, 1, Len(vstack) - 1))
                 ELSE Raise(i, "UnclosedArrayBracket"))

\* the loop of the inline table from its top into value_entry, with the
\* first key of the assignment
TableEntry ==
    /\ InLoop("table", "head")
    /\ LET i == skip_whitespace(vtext, vidx)
           f == vstack[Len(vstack)]
       IN  Apply(IF byte(vtext, i) = "}"
                 THEN return_value(Table(f.map), i + 1,
                                   SubSeq(vstack, 1, Len(vstack) - 1))
                 ELSE IF byte(vtext, i) = None
                 THEN Raise(i, "UnclosedInlineTableBracket")
                 ELSE Once(key_parse_key(remainder(vtext, i)),
                           LAMBDA k : Once(parse_nested(k, vtext, i, vstack),
                                           value_entry)))

\* one more key of a dotted key
NestedKey ==
    /\ InLoop("table", "key")
    /\ Apply(Once(key_parse_key(remainder(vtext, vidx)),
                  LAMBDA k : Once(parse_nested(k, vtext, vidx, vstack),
                                  value_entry)))

\* the loop of the inline table from the return of value_entry to the call
\* of parse_value for the value
TableValue ==
    /\ InLoop("table", "equals")
    /\ LET i == skip_whitespace(vtext, vidx)
       IN  Apply(IF byte(vtext, i) # "="
                 THEN Raise(i, "NoEqualsInAssignment")
                 ELSE call_parse_value(vtext, skip_whitespace(vtext, i + 1), vstack))

\* the loop of the inline table from the return of the value to its end
TableDelimiter ==
    /\ InLoop("table", "after")
    /\ LET i == skip_whitespace(vtext, vidx)
           f == vstack[Len(vstack)]
       IN  Apply(IF byte(vtext, i) = ","
                 THEN Out(skip_whitespace(vtext, i + 1),
                          SetLast(vstack, [f EXCEPT !.phase = "head"]), ValRun)
                 ELSE IF byte(vtext, i) = "}"
                 THEN return_value(Table(f.map), i + 1,
                                   SubSeq(vstack, 1, Len(vstack) - 1))
                 ELSE Raise(i, "UnclosedInlineTableBracket"))

-----------------------------------------------------------------------------
(* boml-derive: the strategy of an enum, from its boml attributes.         *)

\* BomlAttrField
ValueEnumField == [field |-> "value_enum", name |-> ""]
UntaggedField == [field |-> "untagged", name |-> ""]
TagField(t) == [field |-> "tag", name |-> t]
ContentField(c) == [field |-> "content", name |-> c]

\* EnumStrategy
ValueEnum == [strategy |-> "ValueEnum", tag |-> None, content |-> None]
Untagged == [strategy |-> "Untagged", tag |-> None, content |-> None]
TagExternal == [strategy |-> "TagExternal", tag |-> None, content |-> None]
TagInternal(t) == [strategy |-> "TagInternal", tag |-> t, content |-> None]
TagAdjecent(t, c) == [strategy |-> "TagAdjecent", tag |-> t, content |-> c]
NoMode == [strategy |-> None, tag |-> None, content |-> None]

\* syn::Error, by its message without the backquotes around the names; the
\* two names of a mutex_error apart
NoError == [msg |-> None, lhs |-> None, rhs |-> None]
mutex_error(lhs, rhs) ==
    [msg |-> "{} and {} are mutually exclusive", lhs |-> lhs, rhs |-> rhs]
ContentRequiresTag ==
    [msg |-> "content requires tag", lhs |-> None, rhs |-> None]
DuplicateTag == [msg |-> "duplicate tag", lhs |-> None, rhs |-> None]

DeriveIdle == [state |-> "idle", err |-> NoError, strategy |-> NoMode]
DeriveOk(s) == [state |-> "done", err |-> NoError, strategy |-> s]
DeriveErr(e) == [state |-> "done", err |-> e, strategy |-> NoMode]

\* BomlAttr::check_duplicates: no two tag fields of the same text
check_duplicates(fields) ==
    IF \E i, j \in 1..Len(fields) :
           /\ i < j
           /\ fields[i].field = "tag" /\ fields[j].field = "tag"
           /\ fields[i].name = fields[j].name
    THEN DuplicateTag
    ELSE NoError

\* one turn of the loop of try_from; st holds tag, content, mode and the
\* error that was returned, if one was
try_from_field(st, f) ==
    CASE f.field = "value_enum" ->
           IF st.tag # None THEN [st EXCEPT !.err = mutex_error("value_enum", "tag")]
           ELSE IF st.content # None
           THEN [st EXCEPT !.err = mutex_error("value_enum", "content")]
           ELSE IF st.mode = Untagged
           THEN [st EXCEPT !.err = mutex_error("value_enum", "untagged")]
           ELSE [st EXCEPT !.mode = ValueEnum]
      [] f.field = "untagged" ->
           IF st.tag # None THEN [st EXCEPT !.err = mutex_error("untagged", "tag")]
           ELSE IF st.content # None
           THEN [st EXCEPT !.err = mutex_error("untagged", "content")]
           ELSE IF st.mode = ValueEnum
           THEN [st EXCEPT !.err = mutex_error("untagged", "value_enum")]
           ELSE [st EXCEPT !.mode = Untagged]
      [] f.field = "tag" ->
           IF st.mode = ValueEnum
           THEN [st EXCEPT !.err = mutex_error("tag", "value_enum")]
           ELSE IF st.mode = Untagged
           THEN [st EXCEPT !.err = mutex_error("tag", "untagged")]
           ELSE IF st.content # None
           THEN [st EXCEPT !.mode = TagAdjecent(f.name, st.content)]
           ELSE [st EXCEPT !.mode = TagInternal(f.name), !.tag = f.name]
      [] f.field = "content" ->
           IF st.mode = ValueEnum
           THEN [st EXCEPT !.err = mutex_error("tag", "value_enum")]
           ELSE IF st.mode = Untagged
           THEN [st EXCEPT !.err = mutex_error("tag", "untagged")]
           ELSE IF st.tag # None
           THEN [st EXCEPT !.mode = TagAdjecent(st.tag, f.name)]
           ELSE [st EXCEPT !.content = f.name]

RECURSIVE try_from_loop(_, _, _)
try_from_loop(st, fields, i) ==
    IF i > Len(fields) \/ st.err # NoError
    THEN st
    ELSE try_from_loop(try_from_field(st, fields[i]), fields, i + 1)

\* EnumStrategy::try_from
try_from(fields) ==
    LET st == try_from_loop([tag |-> None, content |-> None, mode |-> NoMode,
                             err |-> NoError], fields, 1)
    IN  IF st.err # NoError THEN DeriveErr(st.err)
        ELSE IF st.content # None /\ st.tag = None
        THEN DeriveErr(ContentRequiresTag)
        ELSE DeriveOk(IF st.mode = NoMode THEN TagExternal ELSE st.mode)

\* the names written in the attributes
AttrNames == {"T", "C"}

AttrFields ==
    {ValueEnumField, UntaggedField}
        \cup {TagField(t) : t \in AttrNames}
        \cup {ContentField(c) : c \in AttrNames}

DeriveInit ==
    /\ attr_fields \in UNION {[1..n -> AttrFields] : n \in 0..MaxAttrs}
    /\ strategy = DeriveIdle

\* derive_enum, up to the strategy
DeriveEnum ==
    /\ strategy.state = "idle"
    /\ strategy' = (IF check_duplicates(attr_fields) # NoError
                    THEN DeriveErr(check_duplicates(attr_fields))
                    ELSE try_from(attr_fields))
    /\ UNCHANGED <<attr_fields, drivervars, numvars, strvars, keyvars,
                   adaptvars, valvars>>

-----------------------------------------------------------------------------
(* The specifications.                                                     *)

Init ==
    /\ DriverInit
    /\ ntext = <<>> /\ nres = NumIdle /\ debug_build = FALSE
    /\ stext = <<>> /\ sres = StrIdle
    /\ ktable = {}
    /\ atable = EmptyMap /\ ashape = NoShape /\ ares = AdaptIdle
    /\ vtext = <<>> /\ vidx = 0 /\ vstack = <<>> /\ vres = ValIdle
    /\ attr_fields = <<>> /\ strategy = DeriveIdle

Next == TableHeader \/ ArrayTableHeader \/ KeyValue \/ Finish

Spec == Init /\ [][Next]_vars

InitNum ==
    /\ NumInit
    /\ root_table = EmptyMap /\ current_table = NoTable
    /\ result = "Ok" /\ log = <<>>
    /\ stext = <<>> /\ sres = StrIdle
    /\ ktable = {}
    /\ atable = EmptyMap /\ ashape = NoShape /\ ares = AdaptIdle
    /\ vtext = <<>> /\ vidx = 0 /\ vstack = <<>> /\ vres = ValIdle
    /\ attr_fields = <<>> /\ strategy = DeriveIdle

NextNum == ParseNumber

SpecNum == InitNum /\ [][NextNum]_vars

InitStr ==
    /\ StrInit
    /\ root_table = EmptyMap /\ current_table = NoTable
    /\ result = "Ok" /\ log = <<>>
    /\ ntext = <<>> /\ nres = NumIdle /\ debug_build = FALSE
    /\ ktable = {}
    /\ atable = EmptyMap /\ ashape = NoShape /\ ares = AdaptIdle
    /\ vtext = <<>> /\ vidx = 0 /\ vstack = <<>> /\ vres = ValIdle
    /\ attr_fields = <<>> /\ strategy = DeriveIdle

NextStr == ParseString

SpecStr == InitStr /\ [][NextStr]_vars

InitKey ==
    /\ KeyInit
    /\ root_table = EmptyMap /\ current_table = NoTable
    /\ result = "Ok" /\ log = <<>>
    /\ ntext = <<>> /\ nres = NumIdle /\ debug_build = FALSE
    /\ stext = <<>> /\ sres = StrIdle
    /\ atable = EmptyMap /\ ashape = NoShape /\ ares = AdaptIdle
    /\ vtext = <<>> /\ vidx = 0 /\ vstack = <<>> /\ vres = ValIdle
    /\ attr_fields = <<>> /\ strategy = DeriveIdle

NextKey == LookUpKey

SpecKey == InitKey /\ [][NextKey]_vars

InitTime ==
    /\ TimeInit
    /\ root_table = EmptyMap /\ current_table = NoTable
    /\ result = "Ok" /\ log = <<>>
    /\ stext = <<>> /\ sres = StrIdle
    /\ ktable = {}
    /\ atable = EmptyMap /\ ashape = NoShape /\ ares = AdaptIdle
    /\ vtext = <<>> /\ vidx = 0 /\ vstack = <<>> /\ vres = ValIdle
    /\ attr_fields = <<>> /\ strategy = DeriveIdle

SpecTime == InitTime /\ [][NextNum]_vars

InitAdapt ==
    /\ AdaptInit
    /\ root_table = EmptyMap /\ current_table = NoTable
    /\ result = "Ok" /\ log = <<>>
    /\ ntext = <<>> /\ nres = NumIdle /\ debug_build = FALSE
    /\ stext = <<>> /\ sres = StrIdle
    /\ ktable = {}
    /\ vtext = <<>> /\ vidx = 0 /\ vstack = <<>> /\ vres = ValIdle
    /\ attr_fields = <<>> /\ strategy = DeriveIdle

NextAdapt == Convert

SpecAdapt == InitAdapt /\ [][NextAdapt]_vars

InitVal ==
    /\ ValInit
    /\ root_table = EmptyMap /\ current_table = NoTable
    /\ result = "Ok" /\ log = <<>>
    /\ ntext = <<>> /\ nres = NumIdle /\ debug_build \in BOOLEAN
    /\ stext = <<>> /\ sres = StrIdle
    /\ ktable = {}
    /\ atable = EmptyMap /\ ashape = NoShape /\ ares = AdaptIdle
    /\ attr_fields = <<>> /\ strategy = DeriveIdle

NextVal ==
    \/ ParseValue
    \/ ArrayElement \/ ArrayDelimiter
    \/ TableEntry \/ NestedKey \/ TableValue \/ TableDelimiter

SpecVal == InitVal /\ [][NextVal]_vars

\* the parser runs on: a call that has not returned takes its next step
SpecValFair == SpecVal /\ WF_vars(NextVal)

InitDerive ==
    /\ DeriveInit
    /\ root_table = EmptyMap /\ current_table = NoTable
    /\ result = "Ok" /\ log = <<>>
    /\ ntext = <<>> /\ nres = NumIdle /\ debug_build = FALSE
    /\ stext = <<>> /\ sres = StrIdle
    /\ ktable = {}
    /\ atable = EmptyMap /\ ashape = NoShape /\ ares = AdaptIdle
    /\ vtext = <<>> /\ vidx = 0 /\ vstack = <<>> /\ vres = ValIdle

NextDerive == DeriveEnum

SpecDerive == InitDerive /\ [][NextDerive]_vars

-----------------------------------------------------------------------------
(* Reading the log and the tree.                                           *)

NoValue == [type |-> "none", v |-> 0, map |-> EmptyMap, items |-> <<>>]

RECURSIVE Resolve(_, _)
\* the value a key path names in a table, going through tables only
Resolve(map, path) ==
    IF Head(path) \notin DOMAIN map THEN NoValue
    ELSE IF Len(path) = 1 THEN map[Head(path)]
    ELSE IF map[Head(path)].type = "Table"
    THEN Resolve(map[Head(path)].map, Tail(path))
    ELSE NoValue

IsPrefix(p, q) == Len(p) <= Len(q) /\ SubSeq(q, 1, Len(p)) = p
IsProperPrefix(p, q) == Len(p) < Len(q) /\ IsPrefix(p, q)

IsAssign(i) == log[i].kind = "assign"
IsTable(i) == log[i].kind = "table"
IsArrayTable(i) == log[i].kind = "array_table"

\* statements i < j are key/value lines under the same header (or both
\* before the first header)
SameTarget(i, j) == i < j /\ \A k \in i..j : IsAssign(k)
\* statement i is a key/value line before the first header
AtRoot(i) == \A k \in 1..i : IsAssign(k)
\* statement i is a key/value line under the last header read so far
InCurrent(i) == \A k \in i..Len(log) : IsAssign(k)

\* the table the key/value lines are inserted into
Target == IF current_table.some THEN current_table.table ELSE root_table

\* the keys of an inline-table literal are pairwise distinct
DistinctPairs(ps) == \A m, n \in DOMAIN ps : m # n => ps[m][1] # ps[n][1]

-----------------------------------------------------------------------------
(* C1..C7: table construction.                                             *)

\* C1: a key/value assignment to a key that already names a value of its
\* target table fails with ReusedKey: when a key/value line repeats the key
\* path of an earlier line of the same table, or an inline table repeats a
\* key, the parse has failed with ReusedKey.
C1_ReusedKeyOnOccupiedSlot ==
    /\ \A i, j \in DOMAIN log :
          (SameTarget(i, j) /\ log[i].key = log[j].key) => result = "ReusedKey"
    /\ \A i \in DOMAIN log :
          (IsAssign(i) /\ log[i].lit.kind = "inline" /\ ~DistinctPairs(log[i].lit.pairs))
             => result = "ReusedKey"

\* C2: a header [p] after an earlier header [p] makes the parse fail with
\* ReusedKey, whatever was read in between.
C2_SecondHeaderFails ==
    \A i, j \in DOMAIN log :
        (i < j /\ IsTable(i) /\ IsTable(j) /\ log[i].key = log[j].key)
           => (result # "parsing" => result = "ReusedKey")

\* C2, amended: a header [p] after an earlier header [p] makes the parse fail
\* with ReusedKey, whatever was read in between, unless an array-of-tables
\* header [[q]] for a proper prefix q of p was read in between.
C2_SecondHeaderFailsUnlessNewElement ==
    \A i, j \in DOMAIN log :
        (/\ i < j /\ IsTable(i) /\ IsTable(j) /\ log[i].key = log[j].key
         /\ ~\E k \in i..j : IsArrayTable(k) /\ IsProperPrefix(log[k].key, log[j].key))
           => (result # "parsing" => result = "ReusedKey")

\* C2, witness: [p], something else, [p] again, and the parse has failed
C2_Witness ==
    /\ result = "ReusedKey"
    /\ \E i, j \in DOMAIN log :
          /\ i + 1 < j /\ IsTable(i) /\ IsTable(j) /\ log[i].key = log[j].key
          /\ ~\E k \in i..j : IsArrayTable(k)
          /\ \E k \in i..j : IsAssign(k)

\* the document is [q], key/value lines, [p], key/value lines, with p a
\* proper prefix of q and integer values under pairwise distinct keys
PromotionDoc(j) ==
    /\ Len(log) >= 2 /\ j \in 2..Len(log)
    /\ IsTable(1) /\ IsTable(j)
    /\ IsProperPrefix(log[j].key, log[1].key)
    /\ \A k \in DOMAIN log \ {1, j} :
          /\ IsAssign(k) /\ log[k].lit.kind = "integer"
          /\ \A m \in DOMAIN log \ {1, j, k} :
                (m < j <=> k < j) => log[m].key[1] # log[k].key[1]
          /\ k > j => log[k].key[1] # log[1].key[Len(log[j].key) + 1]

\* C3: a header [p] for a table that so far exists only implicitly succeeds
\* and the table keeps its children: [q] lines [p] lines, with p a proper
\* prefix of q, parses, and each line's value is found under its header.
C3_ImplicitTablePromoted ==
    \A j \in DOMAIN log :
        (PromotionDoc(j) /\ result # "parsing") =>
            /\ result = "Ok"
            /\ \A k \in DOMAIN log \ {1, j} :
                  Resolve(root_table, (IF k < j THEN log[1].key ELSE log[j].key)
                                         \o log[k].key)
                     = Integer(log[k].lit.n)

\* C4: a table written as an inline literal is frozen: a later dotted key of
\* the same table that goes through it fails with ReusedKey at once, and a
\* later header through it (for a literal at the root) fails the parse.
C4_InlineTableFrozen ==
    \A i, j \in DOMAIN log :
        (/\ i < j /\ IsAssign(i) /\ log[i].lit.kind = "inline"
         /\ DistinctPairs(log[i].lit.pairs)
         /\ IsProperPrefix(log[i].key, log[j].key) \/ (~IsAssign(j) /\ log[i].key = log[j].key))
           => IF SameTarget(i, j) THEN result = "ReusedKey"
              ELSE (AtRoot(i) /\ ~IsAssign(j)) => result # "Ok"

\* C5: an array-of-tables header [[p]] whose slot already holds a value that
\* is not an array of tables (here: a value assigned to p at the root)
\* fails with ReusedKey, and no table is appended to an array literal.
C5_ArrayHeaderOnOtherValue ==
    \A i, j \in DOMAIN log :
        (AtRoot(i) /\ IsArrayTable(j) /\ log[i].key = log[j].key)
           => (result # "parsing" => result = "ReusedKey")

\* the key/value lines between header i and the next header
Lines(i) == {k \in DOMAIN log : k > i /\ \A m \in (i + 1)..k : IsAssign(m)}

\* C6: when all the headers of the document are [[p]], root[p] is an array
\* of as many tables as there were headers, in their order, and the i-th
\* holds the value of every key/value line between the i-th header and the
\* next.
C6_ArrayOfTablesInOrder ==
    LET headers == {i \in DOMAIN log : ~IsAssign(i)}
        nth(i) == Cardinality({h \in headers : h <= i})
    IN  (/\ result = "Ok"
         /\ headers # {}
         /\ \A i, h \in headers : IsArrayTable(i) /\ log[i].key = log[h].key
         /\ \A i \in headers : Len(log[i].key) = 1)
        => \A h \in headers :
              LET a == Resolve(root_table, log[h].key)
              IN  /\ a.type = "Array"
                  /\ Len(a.items) = Cardinality(headers)
                  /\ \A n \in DOMAIN a.items : a.items[n].type = "Table"
                  /\ \A k \in Lines(h) :
                        Resolve(a.items[nth(h)].map, log[k].key)
                           = parse_value(log[k].lit).val

\* C7: dotted keys of one table that share their first segment t go into
\* one table t: while no line assigns t itself, t is a table that holds the
\* second segment of each of these keys, with the value of the line when
\* only one line names that key.
C7_DottedKeysShareTable ==
    result = "parsing" =>
        \A i \in DOMAIN log :
            (/\ InCurrent(i) /\ Len(log[i].key) = 2
             /\ ~\E k \in DOMAIN log : InCurrent(k) /\ log[k].key = <<log[i].key[1]>>)
               => /\ log[i].key[1] \in DOMAIN Target
                  /\ Target[log[i].key[1]].type = "Table"
                  /\ log[i].key[2] \in DOMAIN Target[log[i].key[1]].map
                  /\ (~\E k \in DOMAIN log : k # i /\ InCurrent(k) /\ log[k].key = log[i].key)
                       => Target[log[i].key[1]].map[log[i].key[2]]
                             = Integer(log[i].lit.n)

\* C7, witness: t.a and t.b were assigned, in either order, and t holds both
C7_Witness ==
    /\ result = "parsing"
    /\ \E i, j \in DOMAIN log :
          /\ i < j /\ InCurrent(i)
          /\ log[i].key = <<SegA, SegB>> /\ log[j].key = <<SegA, SegA>>
          /\ ~\E k \in DOMAIN log : InCurrent(k) /\ log[k].key = <<SegA>>
          /\ DOMAIN Target[SegA].map = {SegA, SegB}

-----------------------------------------------------------------------------
(* C8, C9: integer literals.                                               *)

\* the bytes that end a number in a document
TokenEnd == {" ", "TAB", "LF", "CR", "FF", ",", "]", "}", "#"}

RECURSIVE Token(_)
\* the text up to the first byte that ends a number
Token(t) ==
    IF t = <<>> \/ Head(t) \in TokenEnd THEN <<>> ELSE <<Head(t)>> \o Token(Tail(t))

\* the parts of a literal: its sign, its base and its digits
LitNegative(t) == t # <<>> /\ t[1] = "-"
LitUnsigned(t) == IF t # <<>> /\ t[1] \in {"+", "-"} THEN Tail(Token(t)) ELSE Token(t)
LitPrefixed(t) ==
    /\ Len(LitUnsigned(t)) >= 2
    /\ LitUnsigned(t)[1] = "0" /\ LitUnsigned(t)[2] \in {"x", "o", "b"}
LitBase(t) ==
    IF ~LitPrefixed(t) THEN 10
    ELSE IF LitUnsigned(t)[2] = "x" THEN 16
    ELSE IF LitUnsigned(t)[2] = "o" THEN 8 ELSE 2
LitDigits(t) ==
    IF LitPrefixed(t) THEN Tail(Tail(LitUnsigned(t))) ELSE LitUnsigned(t)

\* the value of a digit in a base, -1 for a byte that is no digit of it
HexValues ==
    ("0" :> 0) @@ ("1" :> 1) @@ ("2" :> 2) @@ ("3" :> 3) @@ ("4" :> 4) @@
    ("5" :> 5) @@ ("6" :> 6) @@ ("7" :> 7) @@ ("8" :> 8) @@ ("9" :> 9) @@
    ("a" :> 10) @@ ("b" :> 11) @@ ("c" :> 12) @@ ("d" :> 13) @@ ("e" :> 14) @@
    ("f" :> 15) @@ ("A" :> 10) @@ ("B" :> 11) @@ ("C" :> 12) @@ ("D" :> 13) @@
    ("E" :> 14) @@ ("F" :> 15)
DigitIn(base, c) ==
    IF c \in DOMAIN HexValues /\ HexValues[c] < base THEN HexValues[c] ELSE -1

\* the text is an integer literal: digits of its base, single underscores
\* between digits only, and no leading zero in a decimal literal
IsIntLiteral(t) ==
    LET ds == LitDigits(t)
    IN  /\ ds # <<>>
        /\ \A i \in DOMAIN ds : ds[i] = "_" \/ DigitIn(LitBase(t), ds[i]) # -1
        /\ ds[1] # "_" /\ ds[Len(ds)] # "_"
        /\ \A i \in 1..(Len(ds) - 1) : ~(ds[i] = "_" /\ ds[i + 1] = "_")
        /\ (LitBase(t) = 10 /\ Len(ds) > 1) => ds[1] # "0"

RECURSIVE Magnitude(_, _)
\* the number the digits ds write in the base
Magnitude(ds, base) ==
    IF ds = <<>> THEN 0
    ELSE IF ds[Len(ds)] = "_" THEN Magnitude(SubSeq(ds, 1, Len(ds) - 1), base)
    ELSE Magnitude(SubSeq(ds, 1, Len(ds) - 1), base) * base
         + DigitIn(base, ds[Len(ds)])

\* the mathematical value of a literal
LitValue(t) ==
    IF LitNegative(t) THEN -Magnitude(LitDigits(t), LitBase(t))
    ELSE Magnitude(LitDigits(t), LitBase(t))

\* C8: an integer literal (optional sign, decimal or 0x/0o/0b, single
\* underscores between its digits) whose value is within the range of the
\* integer type parses to the Integer of exactly that value.
C8_IntegerLiteralValue ==
    (/\ nres.state = "done"
     /\ IsIntLiteral(ntext)
     /\ LitValue(ntext) >= i64_MIN /\ LitValue(ntext) <= i64_MAX)
       => nres.ok /\ nres.kind = "Integer" /\ nres.val = LitValue(ntext)

\* C8, witness: a negative hexadecimal literal with an underscore, and a
\* letter for a digit, was parsed to its value
C8_Witness ==
    /\ nres.state = "done" /\ nres.ok /\ nres.kind = "Integer"
    /\ IsIntLiteral(ntext) /\ LitBase(ntext) = 16 /\ LitNegative(ntext)
    /\ \E i \in DOMAIN ntext : ntext[i] = "_"
    /\ \E i \in DOMAIN ntext : ntext[i] = "F"
    /\ nres.val = LitValue(ntext) /\ nres.val < -10

\* C9: the accumulator never wraps: an integer literal whose value is below
\* the least or above the greatest integer fails with NumberTooLarge, the
\* literal of the least integer is accepted with that value, and an Integer
\* that is returned is within the range.
C9_NoWrapAround ==
    nres.state = "done" =>
        /\ (IsIntLiteral(ntext)
            /\ (LitValue(ntext) < i64_MIN \/ LitValue(ntext) > i64_MAX))
              => ~nres.ok /\ nres.err = "NumberTooLarge"
        /\ (IsIntLiteral(ntext) /\ LitValue(ntext) = i64_MIN)
              => nres.ok /\ nres.kind = "Integer" /\ nres.val = i64_MIN
        /\ (nres.ok /\ nres.kind = "Integer")
              => nres.val >= i64_MIN /\ nres.val <= i64_MAX

\* C9, witness: the literal one above the greatest integer, written without
\* a sign, was rejected
C9_Witness ==
    /\ nres.state = "done"
    /\ IsIntLiteral(ntext) /\ ntext[1] \notin {"+", "-"}
    /\ LitValue(ntext) = i64_MAX + 1
    /\ ~nres.ok /\ nres.err = "NumberTooLarge"

-----------------------------------------------------------------------------
(* C10: the escapes of basic strings.                                      *)

\* the escapes that stand for one byte
Escapes ==
    ("b" :> "BS") @@ ("t" :> "TAB") @@ ("n" :> "LF") @@ ("f" :> "FF") @@
    ("r" :> "CR") @@ ("DQ" :> "DQ") @@ ("BSL" :> "BSL")

\* the text is a basic string: double quotes open it
IsBasic(t) == t # <<>> /\ t[1] = "DQ"

\* the string is one of three quotes
IsMultiline(t) == Len(t) >= 3 /\ SubSeq(t, 1, 3) = <<"DQ", "DQ", "DQ">>

\* the text after the opening quote or delimiter (and after the line feed
\* that directly follows an opening delimiter)
AfterOpening(t) ==
    IF ~IsMultiline(t) THEN Tail(t)
    ELSE IF Len(t) >= 4 /\ t[4] = "LF" THEN SubSeq(t, 5, Len(t))
    ELSE SubSeq(t, 4, Len(t))

\* c in front of what the rest of the string decodes to
Push(c, r) == IF r.kind = "ok" THEN [kind |-> "ok", out |-> <<c>> \o r.out] ELSE r

RECURSIVE Decoded(_, _)
\* what the string that goes on with t decodes to, up to its closing quote:
\* "ok" with the decoded text, "unknown" when the first thing that is no
\* plain byte and no one-byte escape is a backslash with a byte that is
\* neither u nor U (nor whitespace, in a multi-line string), and "other"
\* for the rest (the end of the input, a \u or \U, a line-ending backslash)
Decoded(t, multi) ==
    IF t = <<>> THEN [kind |-> "other", out |-> <<>>]
    ELSE IF multi /\ IsMultiline(t)
    THEN [kind |-> "ok",
          out |-> IF Len(t) >= 5 /\ t[4] = "DQ" /\ t[5] = "DQ" THEN <<"DQ", "DQ">>
                  ELSE IF Len(t) >= 4 /\ t[4] = "DQ" THEN <<"DQ">> ELSE <<>>]
    ELSE IF ~multi /\ t[1] = "DQ" THEN [kind |-> "ok", out |-> <<>>]
    ELSE IF t[1] # "BSL" THEN Push(t[1], Decoded(Tail(t), multi))
    ELSE IF Len(t) = 1 THEN [kind |-> "other", out |-> <<>>]
    ELSE IF t[2] \in DOMAIN Escapes
    THEN Push(Escapes[t[2]], Decoded(Tail(Tail(t)), multi))
    ELSE IF t[2] \in {"u", "U"} \/ (multi /\ t[2] \in {" ", "TAB", "LF", "CR", "FF"})
    THEN [kind |-> "other", out |-> <<>>]
    ELSE [kind |-> "unknown", out |-> <<>>]

\* C10: in a basic string, of one line or of several, each of
\* \b \t \n \f \r \" \\ decodes to the one byte it stands for, every other
\* byte is copied as it is and in order, and a backslash with any other byte
\* (but u, U and, in a multi-line string, whitespace) fails with
\* UnknownEscapeSequence.
C10_BasicStringEscapes ==
    (sres.state = "done" /\ IsBasic(stext)) =>
        LET d == Decoded(AfterOpening(stext), IsMultiline(stext))
        IN  /\ d.kind = "ok" => sres.ok /\ sres.string = d.out
            /\ d.kind = "unknown" => ~sres.ok /\ sres.err = "UnknownEscapeSequence"

\* C10, witness: a \f between two plain bytes was decoded, in a string of
\* one line
C10_Witness ==
    /\ sres.state = "done" /\ sres.ok /\ sres.owned
    /\ stext = <<"DQ", "a", "BSL", "f", "a", "DQ">>
    /\ sres.string = <<"a", "FF", "a">>

-----------------------------------------------------------------------------
(* C11: the line-ending backslash.                                         *)

\* the bytes a line-ending backslash goes with
Blank == {" ", "TAB", "LF", "CR"}

RECURSIVE DropBlank(_)
\* t from its first byte that is no blank
DropBlank(t) == IF t # <<>> /\ Head(t) \in Blank THEN DropBlank(Tail(t)) ELSE t

\* c in front of what the rest of the string folds to
PushFolded(c, r) ==
    IF r.kind = "ok" THEN [r EXCEPT !.out = <<c>> \o r.out] ELSE r

RECURSIVE Folded(_, _)
\* what the string that goes on with t decodes to when a backslash with a
\* blank, in a multi-line string, stands for nothing and takes the blanks
\* that follow with it; n counts these backslashes.  "blank" is a backslash
\* with a blank in a string of one line, "other" what the property is not
\* about (the end of the input, another unknown escape, a \u or \U)
Folded(t, multi) ==
    IF t = <<>> THEN [kind |-> "other", out |-> <<>>, n |-> 0]
    ELSE IF multi /\ IsMultiline(t)
    THEN [kind |-> "ok", n |-> 0,
          out |-> IF Len(t) >= 5 /\ t[4] = "DQ" /\ t[5] = "DQ" THEN <<"DQ", "DQ">>
                  ELSE IF Len(t) >= 4 /\ t[4] = "DQ" THEN <<"DQ">> ELSE <<>>]
    ELSE IF ~multi /\ t[1] = "DQ" THEN [kind |-> "ok", out |-> <<>>, n |-> 0]
    ELSE IF t[1] # "BSL" THEN PushFolded(t[1], Folded(Tail(t), multi))
    ELSE IF Len(t) = 1 THEN [kind |-> "other", out |-> <<>>, n |-> 0]
    ELSE IF t[2] \in DOMAIN Escapes
    THEN PushFolded(Escapes[t[2]], Folded(Tail(Tail(t)), multi))
    ELSE IF t[2] \in Blank
    THEN IF multi
         THEN LET r == Folded(DropBlank(Tail(t)), multi)
              IN  IF r.kind = "ok" THEN [r EXCEPT !.n = r.n + 1] ELSE r
         ELSE [kind |-> "blank", out |-> <<>>, n |-> 0]
    ELSE [kind |-> "other", out |-> <<>>, n |-> 0]

\* C11: in a multi-line basic string a backslash directly followed by a
\* space, a tab, a line feed or a carriage return emits nothing, and the
\* decoding goes on at the first byte after it that is none of these; in a
\* basic string of one line that backslash fails with
\* UnknownEscapeSequence.
C11_LineEndingBackslash ==
    (sres.state = "done" /\ IsBasic(stext)) =>
        LET d == Folded(AfterOpening(stext), IsMultiline(stext))
        IN  /\ (d.kind = "ok" /\ d.n > 0) => sres.ok /\ sres.string = d.out
            /\ d.kind = "blank" => ~sres.ok /\ sres.err = "UnknownEscapeSequence"

\* C11, witness: a backslash, a line feed and a space were folded away in
\* front of a plain byte
C11_Witness ==
    /\ sres.state = "done" /\ sres.ok
    /\ stext = <<"DQ", "DQ", "DQ", "BSL", "LF", " ", "a", "DQ", "DQ", "DQ">>
    /\ sres.string = <<"a">>

-----------------------------------------------------------------------------
(* C12: no line feed in a string of one line.                              *)

\* the text is a string of one line: one quote opens it, not three
IsSingleLine(t) ==
    /\ t # <<>> /\ t[1] \in {"SQ", "DQ"}
    /\ ~(Len(t) >= 3 /\ t[2] = t[1] /\ t[3] = t[1])

RECURSIVE LineFeedInBody(_, _)
\* the string that goes on with t and is closed by the quote q has a line
\* feed before its closing quote; in a basic string a backslash and the
\* byte it escapes are passed together
LineFeedInBody(t, q) ==
    IF t = <<>> THEN FALSE
    ELSE IF t[1] = "LF" THEN TRUE
    ELSE IF t[1] = q THEN FALSE
    ELSE IF q = "DQ" /\ t[1] = "BSL" /\ Len(t) >= 2 /\ t[2] # "LF"
    THEN LineFeedInBody(Tail(Tail(t)), q)
    ELSE LineFeedInBody(Tail(t), q)

\* C12: a literal or basic string of one line whose body has a line feed
\* before the closing quote is rejected with an error.
C12_NoLineFeedInSingleLine ==
    (/\ sres.state = "done"
     /\ IsSingleLine(stext)
     /\ LineFeedInBody(Tail(stext), stext[1]))
       => ~sres.ok

-----------------------------------------------------------------------------
(* C13: signs before dates and times.                                      *)

DateTimeKinds == {"Date", "Time", "DateTime", "OffsetDateTime"}

\* C13: a text that starts with a `+` or `-` sign never yields a Date, a
\* Time, a DateTime or an OffsetDateTime: a sign directly in front of a date
\* or time literal is an error.
C13_SignedDateTimeRejected ==
    (/\ nres.state = "done"
     /\ ntext # <<>> /\ ntext[1] \in {"+", "-"})
       => ~(nres.ok /\ nres.kind \in DateTimeKinds)

-----------------------------------------------------------------------------
(* C14: leading zeros.                                                     *)

\* the text without its sign
Unsigned(t) == IF t # <<>> /\ t[1] \in {"+", "-"} THEN Tail(t) ELSE t

RECURSIVE DigitRun(_)
\* the number of digits the text starts with
DigitRun(t) ==
    IF t = <<>> \/ ~is_ascii_digit(Head(t)) THEN 0 ELSE 1 + DigitRun(Tail(t))

\* a `0` and another digit start the text
HasLeadingZero(t) == Len(t) >= 2 /\ t[1] = "0" /\ is_ascii_digit(t[2])

\* two digits and a `:`, or four digits and a `-`
HourOrYear(t) ==
    \/ DigitRun(t) = 2 /\ byte(t, 2) = ":"
    \/ DigitRun(t) = 4 /\ byte(t, 4) = "-"

\* C14: a decimal literal that starts with `0` and another digit fails with
\* NumberHasLeadingZero, unless these are the two digits of an hour before a
\* `:` or the four digits of a year before a `-`, which is not a
\* leading-zero error; `0`, `+0` and `-0` before the end of the input or a
\* byte that ends a token are the Integer 0.
C14_LeadingZero ==
    nres.state = "done" =>
        LET u == Unsigned(ntext)
        IN  /\ (HasLeadingZero(u) /\ ~HourOrYear(u))
                  => ~nres.ok /\ nres.err = "NumberHasLeadingZero"
            /\ (HasLeadingZero(u) /\ HourOrYear(u))
                  => nres.err # "NumberHasLeadingZero"
            /\ (u # <<>> /\ u[1] = "0" /\ (Len(u) = 1 \/ u[2] \in TokenEnd))
                  => nres.ok /\ nres.kind = "Integer" /\ nres.val = 0

\* C14, witness: three digits with a leading zero before a `:` were
\* rejected for the leading zero
C14_Witness ==
    /\ nres.state = "done"
    /\ HasLeadingZero(ntext) /\ DigitRun(ntext) = 3 /\ byte(ntext, 3) = ":"
    /\ ~nres.ok /\ nres.err = "NumberHasLeadingZero"

-----------------------------------------------------------------------------
(* C15: string views as keys.                                              *)

\* the text a key stands for: a bare key for itself, a literal string for
\* the bytes between its quotes, a basic string for these bytes with the
\* escapes replaced
DecodedKey(t) ==
    IF t[1] = "SQ" THEN SubSeq(t, 2, Len(t) - 1)
    ELSE IF t[1] = "DQ" THEN Decoded(Tail(t), FALSE).out
    ELSE t

\* the keys that were looked up
Hits == UNION {e.hits : e \in ktable}

\* C15: two string views are equal and have the same hash exactly when the
\* texts they stand for are equal, whether they are borrowed or owned; a
\* bare, a literal and a basic key of the same text find the same slot of
\* the map, and the keys stored in a map stand for pairwise distinct texts.
C15_KeysByDecodedText ==
    /\ \A h1, h2 \in Hits :
          /\ eq(h1.key, h2.key) <=> DecodedKey(h1.text) = DecodedKey(h2.text)
          /\ (hash(h1.key) = hash(h2.key))
                <=> DecodedKey(h1.text) = DecodedKey(h2.text)
    /\ \A e1, e2 \in ktable :
          \A h1 \in e1.hits, h2 \in e2.hits :
             e1 = e2 <=> DecodedKey(h1.text) = DecodedKey(h2.text)
    /\ \A e \in ktable : \E h \in e.hits : h.key = e.key

\* C15, witness: a borrowed and an owned view found the same slot, next to
\* another key
C15_Witness ==
    /\ Cardinality(ktable) = 2
    /\ \E e \in ktable : \E h1, h2 \in e.hits : h1.key.owned /\ ~h2.key.owned

-----------------------------------------------------------------------------
(* C16: the arrays of the [[headers]].                                     *)

RECURSIVE Navigate(_, _)
\* the value a key path names in a table, going through tables and through
\* the last elements of arrays
Navigate(map, path) ==
    IF Head(path) \notin DOMAIN map THEN NoValue
    ELSE IF Len(path) = 1 THEN map[Head(path)]
    ELSE LET v == map[Head(path)]
         IN  IF v.type = "Table" THEN Navigate(v.map, Tail(path))
             ELSE IF v.type = "Array" /\ v.items # <<>>
                     /\ v.items[Len(v.items)].type = "Table"
             THEN Navigate(v.items[Len(v.items)].map, Tail(path))
             ELSE NoValue

\* the table of header j was inserted into the root table
Flushed(j) == result = "Ok" \/ \E k \in (j + 1)..Len(log) : ~IsAssign(k)

\* C16: while the parse has not failed, the array that a header [[p]]
\* created or appended to is an array that is not empty and holds only
\* tables.
C16_HeaderArraysHoldTables ==
    result \in {"parsing", "Ok"} =>
        \A j \in DOMAIN log :
            (IsArrayTable(j) /\ Flushed(j)) =>
                LET a == Navigate(root_table, log[j].key)
                IN  /\ a.type = "Array"
                    /\ a.items # <<>>
                    /\ \A n \in DOMAIN a.items : a.items[n].type = "Table"

-----------------------------------------------------------------------------
(* C17: the key of an adaptor error.                                       *)

\* the conversion of the fields before field i succeeds
FieldsBefore(fields, i, table) ==
    \A j \in 1..(i - 1) : from_toml_value(fields[j].ty, table, fields[j].name).ok

\* C17: a conversion that fails because a key k is absent from the table
\* fails with InvalidKey(k): for the first field of a struct that is absent
\* (and no Option), for the tag key of an enum, and for the content key of
\* an enum with a tag and a content key; Missing never leaves from_toml.
C17_AbsentKeyIsNamed ==
    ares.state = "done" =>
        /\ ~(~ares.ok /\ ares.kind = "Missing")
        /\ ashape.kind = "struct" =>
              \A i \in DOMAIN ashape.fields :
                 (/\ FieldsBefore(ashape.fields, i, atable)
                  /\ ashape.fields[i].name \notin DOMAIN atable
                  /\ ashape.fields[i].ty # "OptInteger")
                    => ares = AdaptErr("InvalidKey", ashape.fields[i].name, "")
        /\ (ashape.kind \in {"internal", "adjacent"}
             /\ ashape.tag \notin DOMAIN atable)
              => ares = AdaptErr("InvalidKey", ashape.tag, "")
        /\ (/\ ashape.kind = "adjacent"
             /\ ashape.tag \in DOMAIN atable /\ atable[ashape.tag].type = "String"
             /\ ashape.content \notin DOMAIN atable)
              => ares = AdaptErr("InvalidKey", ashape.content, "")

-----------------------------------------------------------------------------
(* C18: fractional seconds.                                                *)

\* the digits after the `.` of the time
Fraction(t) ==
    LET dot == CHOOSE i \in DOMAIN t : t[i] = "."
    IN  SubSeq(t, dot + 1, dot + DigitRun(SubSeq(t, dot + 1, Len(t))))

RECURSIVE Pow10(_)
Pow10(n) == IF n = 0 THEN 1 ELSE 10 * Pow10(n - 1)

\* the first nine digits at most, with zeros to their right up to nine
Nanoseconds(ds) ==
    LET k == IF Len(ds) < 9 THEN Len(ds) ELSE 9
    IN  DigitsValue(SubSeq(ds, 1, k)) * Pow10(9 - k)

\* C18: a time with a fractional part of k >= 1 digits is parsed, its
\* nanosecond is the number its first min(k, 9) digits write, padded with
\* zeros to nine digits, and the cursor is left after all the k digits.
C18_FractionTruncated ==
    (/\ nres.state = "done"
     /\ \E i \in DOMAIN ntext : ntext[i] = "."
     /\ Fraction(ntext) # <<>>)
       => /\ nres.ok /\ nres.kind = "Time"
          /\ nres.val.nanosecond = Nanoseconds(Fraction(ntext))
          /\ nres.idx = 9 + Len(Fraction(ntext))

-----------------------------------------------------------------------------
(* C19: \u and \U.                                                         *)

\* the text is a basic string of one line with an `a` and then a \u or \U
UnicodeEscape(t) ==
    Len(t) >= 4 /\ SubSeq(t, 1, 3) = <<"DQ", "a", "BSL">> /\ t[4] \in {"u", "U"}

\* the number of digits of the escape, and the bytes in their place
EscapeLen(t) == IF t[4] = "u" THEN 4 ELSE 8
EscapeDigits(t) == SubSeq(t, 5, 4 + EscapeLen(t))

\* the digits of the escape without the first two of eight
SignificantDigits(t) ==
    SubSeq(EscapeDigits(t), IF EscapeLen(t) = 8 THEN 3 ELSE 1, EscapeLen(t))

\* a Unicode scalar value
IsScalar(n) == (n >= 0 /\ n <= 55295) \/ (n >= 57344 /\ n <= 1114111)

\* the escape is well formed: hexadecimal digits in the number asked for
\* (the first two of eight are 0, or the value is no scalar) that write a
\* scalar
WellFormedEscape(t) ==
    /\ Len(t) >= 4 + EscapeLen(t)
    /\ \A i \in DOMAIN EscapeDigits(t) : DigitIn(16, EscapeDigits(t)[i]) # -1
    /\ EscapeLen(t) = 8 => EscapeDigits(t)[1] = "0" /\ EscapeDigits(t)[2] = "0"
    /\ IsScalar(Magnitude(SignificantDigits(t), 16))

\* the bytes of the scalar of a well-formed escape
ScalarBytes(t) ==
    LET n == Magnitude(SignificantDigits(t), 16)
        named == (8 :> "BS") @@ (9 :> "TAB") @@ (10 :> "LF") @@ (12 :> "FF")
                 @@ (13 :> "CR") @@ (32 :> " ") @@ (34 :> "DQ") @@ (92 :> "BSL")
                 @@ (97 :> "a")
    IN  IF n \in DOMAIN named THEN named[n] ELSE "U+" \o ToString(n)

\* C19: \u with exactly four and \U with exactly eight hexadecimal digits
\* that write a scalar value append that scalar and leave the cursor after
\* these digits, so that what follows them is read as the rest of the
\* string; with anything else after it (too few bytes, a byte that is no
\* hexadecimal digit such as `+`, a surrogate, a value above 0x10FFFF) the
\* escape fails with UnknownUnicodeScalar.
C19_UnicodeEscape ==
    (sres.state = "done" /\ UnicodeEscape(stext)) =>
        IF WellFormedEscape(stext)
        THEN LET rest == SubSeq(stext, 5 + EscapeLen(stext), Len(stext))
             IN  (rest \in {<<"DQ">>, <<"0", "DQ">>}) =>
                    /\ sres.ok
                    /\ sres.string = <<"a", ScalarBytes(stext)>>
                                       \o SubSeq(rest, 1, Len(rest) - 1)
                    /\ sres.idx = Len(stext)
        ELSE ~sres.ok /\ sres.err = "UnknownUnicodeScalar"

-----------------------------------------------------------------------------
(* C20: the end of a multi-line string.                                    *)

\* the text opens with three quotes of one kind
OpensMultiline(t) ==
    Len(t) >= 3 /\ t[1] \in {"DQ", "SQ"} /\ t[2] = t[1] /\ t[3] = t[1]

\* where the body starts: after the opening quotes and the line feed that
\* directly follows them
BodyStart(t) == IF Len(t) >= 4 /\ t[4] = "LF" THEN 5 ELSE 4

RECURSIVE FirstRun(_, _)
\* the place, from i on, of the first three quotes in a row that are not
\* escaped; 0 when there are none
FirstRun(t, i) ==
    IF i + 2 > Len(t) THEN 0
    ELSE IF t[i] = t[1] /\ t[i + 1] = t[1] /\ t[i + 2] = t[1] THEN i
    ELSE IF t[1] = "DQ" /\ t[i] = "BSL" THEN FirstRun(t, i + 2)
    ELSE FirstRun(t, i + 1)

RECURSIVE RunLength(_, _)
\* the number of quotes in a row from i on
RunLength(t, i) ==
    IF i > Len(t) \/ t[i] # t[1] THEN 0 ELSE 1 + RunLength(t, i + 1)

RECURSIVE Unescaped(_)
\* the bytes with each two-byte escape replaced by its byte
Unescaped(b) ==
    IF b = <<>> THEN <<>>
    ELSE IF b[1] = "BSL" THEN <<Escapes[b[2]]>> \o Unescaped(Tail(Tail(b)))
    ELSE <<b[1]>> \o Unescaped(Tail(b))

\* C20: a multi-line string (of single quotes, or of double quotes with
\* none but two-byte escapes) ends at the first three quotes in a row of its
\* body; when four or five quotes are in a row there, the one or two more
\* are the last bytes of the string, borrowed or owned; the cursor is left
\* after the third, fourth or fifth quote, and a sixth is not consumed.
C20_ClosingQuotes ==
    (/\ sres.state = "done"
     /\ OpensMultiline(stext)
     /\ FirstRun(stext, BodyStart(stext)) # 0
     /\ stext[1] = "DQ" => Decoded(AfterOpening(stext), TRUE).kind = "ok")
       => LET at == FirstRun(stext, BodyStart(stext))
              run == RunLength(stext, at)
              extra == (IF run > 5 THEN 5 ELSE run) - 3
              body == SubSeq(stext, BodyStart(stext), at - 1)
          IN  /\ sres.ok
              /\ sres.string = (IF stext[1] = "DQ" THEN Unescaped(body) ELSE body)
                                   \o [i \in 1..extra |-> stext[1]]
              /\ sres.idx = at - 1 + 3 + extra

\* C20, witness: an owned string was closed by five quotes in a row
C20_Witness ==
    /\ sres.state = "done" /\ sres.ok /\ sres.owned
    /\ OpensMultiline(stext)
    /\ FirstRun(stext, BodyStart(stext)) # 0
    /\ RunLength(stext, FirstRun(stext, BodyStart(stext))) = 5
    /\ Len(sres.string) = 3

-----------------------------------------------------------------------------
(* C21: where a date and a time begin in a decimal token, and the kind of  *)
(* the value.                                                              *)

\* the bytes lo..hi of the text are digits
AllDigits(t, lo, hi) ==
    Len(t) >= hi /\ \A i \in lo..hi : is_ascii_digit(t[i])

\* HH:MM:SS stands at position at of the text
TimeAt(t, at) ==
    /\ AllDigits(t, at, at + 1) /\ AllDigits(t, at + 3, at + 4)
    /\ AllDigits(t, at + 6, at + 7)
    /\ t[at + 2] = ":" /\ t[at + 5] = ":"

\* YYYY-MM-DD stands at the start of the text
DateAtStart(t) ==
    /\ AllDigits(t, 1, 4) /\ AllDigits(t, 6, 7) /\ AllDigits(t, 9, 10)
    /\ t[5] = "-" /\ t[8] = "-"

\* the date at the start of the text is followed by a separator and a time
DateThenTime(t) ==
    DateAtStart(t) /\ Len(t) >= 11 /\ t[11] \in {"T", "t", " "} /\ TimeAt(t, 12)

\* the time of a date-time (without a fraction) is followed by an offset
OffsetAfterTime(t) ==
    /\ Len(t) >= 20
    /\ \/ t[20] \in {"Z", "z"}
       \/ /\ t[20] \in {"+", "-"}
          /\ AllDigits(t, 21, 22) /\ AllDigits(t, 24, 25) /\ t[23] = ":"

\* C21: an unsigned decimal token is read as a date only when exactly four
\* digits stand before its first `-`, and as a time only when exactly two
\* digits stand before its first `:`, underscores not counted; a date
\* followed by `T`, `t` or a space and HH:MM:SS is a DateTime, with `Z`, `z`
\* or a signed HH:MM after it an OffsetDateTime, and a Date otherwise.
C21_DateAndTimeStart ==
    (nres.state = "done" /\ nres.ok /\ ntext[1] \notin {"+", "-"})
       => /\ nres.kind = "Time" => TimeAt(ntext, 1)
          /\ nres.kind \in {"Date", "DateTime", "OffsetDateTime"}
                => DateAtStart(ntext)
          /\ nres.kind = "Date" => ~DateThenTime(ntext)
          /\ nres.kind = "DateTime"
                => DateThenTime(ntext) /\ ~OffsetAfterTime(ntext)
          /\ nres.kind = "OffsetDateTime"
                => DateThenTime(ntext) /\ OffsetAfterTime(ntext)

-----------------------------------------------------------------------------
(* C22: the errors of an array literal.                                    *)

RECURSIVE Count(_, _)
\* how often the byte b stands in the text
Count(t, b) ==
    IF t = <<>> THEN 0 ELSE (IF Head(t) = b THEN 1 ELSE 0) + Count(Tail(t), b)

\* C22: the parse of an array fails with UnclosedArrayBracket only when the
\* text ends before the closing bracket of an array (the texts have no
\* bracket inside a string); an element that follows another one without a
\* comma is not reported under that name.
C22_UnclosedOnlyAtEnd ==
    (vres.state = "done" /\ vres.err = "UnclosedArrayBracket")
       => Count(vtext, "[") > Count(vtext, "]")

-----------------------------------------------------------------------------
(* C23: the commas of an inline table.                                     *)

\* a comma stands directly before a closing brace
TrailingComma(t) ==
    \E i \in 1..(Len(t) - 1) : t[i] = "," /\ t[i + 1] = "}"

\* C23: an inline table with a comma directly before its closing brace is
\* rejected, while `{}` and `{a=1}` are accepted.
C23_NoTrailingComma ==
    (vres.state = "done" /\ vtext # <<>> /\ vtext[1] = "{")
       => /\ TrailingComma(vtext) => ~vres.ok
          /\ vtext \in {<<"{", "}">>, <<"{", "a", "=", "1", "}">>} => vres.ok

-----------------------------------------------------------------------------
(* C24: line feeds inside an inline table.                                 *)

\* C24: an inline table with a line feed between its parts (between a key
\* and the `.` or the `=` after it, or between an assignment and the next)
\* is rejected: only spaces and tabs are skipped there.
C24_InlineTableOnOneLine ==
    (vres.state = "done" /\ vtext # <<>> /\ vtext[1] = "{"
        /\ Count(vtext, "LF") > 0)
       => ~vres.ok

-----------------------------------------------------------------------------
(* C25: where parse_value leaves the cursor.                               *)

RECURSIVE LiteralEnd(_, _)
\* the number of bytes of the literal at the start of the text, which is
\* neither an array nor a table and has none of the bytes below inside: it
\* ends before the first of them, from place i on, or with the text
LiteralEnd(t, i) ==
    IF i > Len(t) \/ t[i] \in {",", "]", "}", "#", " ", "LF"} THEN i - 1
    ELSE LiteralEnd(t, i + 1)

\* C25: when parse_value returns a value that is neither an array nor a
\* table, the cursor is on the first byte after the literal, at the end of
\* the text too, and none of the bytes after the literal is consumed; so
\* the array `[0x1,0x1]` is parsed, with two elements, and `{a=0b1}` with
\* one key.
C25_CursorAfterLiteral ==
    /\ (vres.state = "done" /\ vres.ok /\ vtext[1] \notin {"[", "{"})
          => vidx = LiteralEnd(vtext, 1)
    /\ (vres.state = "done" /\ vtext = <<"[", "0", "x", "1", ",", "0", "x", "1", "]">>)
          => vres.ok /\ Len(vres.value.items) = 2
    /\ (vres.state = "done" /\ vtext = <<"{", "a", "=", "0", "b", "1", "}">>)
          => vres.ok /\ DOMAIN vres.value.map = {<<"a">>}

-----------------------------------------------------------------------------
(* C26: an Integer stands for at least one digit.                          *)

\* C26: the number parser returns an Integer only for a token with at least
\* one digit of its base after the sign and the prefix: a sign alone, a
\* prefix alone and a token of underscores are rejected.
C26_IntegerHasDigit ==
    (nres.state = "done" /\ nres.ok /\ nres.kind = "Integer")
       => \E i \in DOMAIN LitDigits(ntext) :
             DigitIn(LitBase(ntext), LitDigits(ntext)[i]) # -1

-----------------------------------------------------------------------------
(* C27: the bytes of a number with a prefix.                               *)

\* C27: a number with the prefix 0x, 0o or 0b that has, before the byte that
\* ends it, a byte that is neither a digit of its base nor an underscore is
\* rejected.
C27_ForeignByteRejected ==
    (/\ nres.state = "done"
     /\ LitPrefixed(ntext)
     /\ \E i \in DOMAIN LitDigits(ntext) :
           /\ LitDigits(ntext)[i] # "_"
           /\ DigitIn(LitBase(ntext), LitDigits(ntext)[i]) = -1)
       => ~nres.ok

-----------------------------------------------------------------------------
(* C28: the sign of an offset.                                             *)

\* the text ends with an offset, a sign and HH:MM
EndsWithOffset(t) ==
    /\ Len(t) >= 6
    /\ t[Len(t) - 5] \in {"+", "-"} /\ t[Len(t) - 2] = ":"
    /\ AllDigits(t, Len(t) - 4, Len(t) - 3) /\ AllDigits(t, Len(t) - 1, Len(t))

\* the text with the other sign before the offset it ends with
OtherSign(t) ==
    [t EXCEPT ![Len(t) - 5] = IF t[Len(t) - 5] = "+" THEN "-" ELSE "+"]

\* C28: of two date-times with an offset that differ in the sign of the
\* offset only, with minutes in the offset, the parser returns two different
\* values, also when the hour of the offset is 00.
C28_OffsetSignKept ==
    (/\ nres.state = "done" /\ nres.ok /\ nres.kind = "OffsetDateTime"
     /\ EndsWithOffset(ntext)
     /\ SubSeq(ntext, Len(ntext) - 1, Len(ntext)) # <<"0", "0">>)
       => parse_number_value(OtherSign(ntext)).val # nres.val

-----------------------------------------------------------------------------
(* C30: tag and content in either order.                                   *)

\* a field of that kind is written in the attributes
Written(fields, kind) == \E i \in 1..Len(fields) : fields[i].field = kind

\* the attributes are one tag and one content field, in either order
TagAndContent(fields) ==
    /\ Len(fields) = 2
    /\ Written(fields, "tag") /\ Written(fields, "content")

\* C30: for attributes that are one tag field T and one content field C, in
\* either order, the strategy is the adjacent tag (T, C); and the error
\* "content requires tag" is returned only for attributes with a content
\* field and no tag field.
C30_TagContentOrder ==
    strategy.state = "done" =>
        /\ TagAndContent(attr_fields) =>
               \E t, c \in AttrNames :
                   /\ Written(attr_fields, "tag") /\ Written(attr_fields, "content")
                   /\ {attr_fields[1], attr_fields[2]}
                          = {TagField(t), ContentField(c)}
                   /\ strategy = DeriveOk(TagAdjecent(t, c))
        /\ strategy.err = ContentRequiresTag =>
               /\ Written(attr_fields, "content")
               /\ ~Written(attr_fields, "tag")

-----------------------------------------------------------------------------
(* C29: the parse of a value ends.                                         *)

\* C29: on every text the cursor never moves back; every step of
\* parse_value and of parse_nested, each with the skip_whitespace calls in
\* it, moves the cursor forward by at least one byte or ends the parse; a
\* parse that has ended takes no further step; and the parse does end,
\* with a value or with one error of the parser.
C29_ParseEnds ==
    /\ [][vidx' >= vidx]_vars
    /\ [][vidx' > vidx \/ vres'.state = "done"]_vars
    /\ [][vres.state # "done"]_vars
    /\ <>(vres.state = "done")
    /\ [](vres.state = "done" => (vres.ok \/ vres.err \notin {"none", "panic"}))

=============================================================================
